---- MODULE Spec2Model ----
(***************************************************************************)
(* Model of src/src/ipc.c (wireguard-tools): the configuration transport   *)
(* between the caller's Device/Peer/AllowedIP records and the backends.    *)
(*                                                                         *)
(*   SpecSet   Linux kernel_set_device (netlink chunking), the kernel's    *)
(*             handling of each WG_CMD_SET_DEVICE message, and the         *)
(*             kernel_get_device that reads the interface back.            *)
(*   SpecNlGet kernel_get_device decoding replies that need not be well    *)
(*             formed.                                                     *)
(*   SpecUGet  userspace_get_device decoding the lines of a userspace      *)
(*             server's response.                                          *)
(*   SpecIpc   ipc_get_device / ipc_set_device choosing between the        *)
(*             userspace and the kernel client.                            *)
(*   SpecList  ipc_list_devices: the netlink dump and the socket           *)
(*             directory, gathered in one string list.                     *)
(*   SpecCoalesce  coalesce_peers on decoded peer sequences.               *)
(*   SpecBsd   OpenBSD kernel_get_device decoding the SIOCGWG buffer.      *)
(*   SpecCap   kernel_set_device with a socket buffer of either size.      *)
(*   SpecNlGetFair  SpecNlGet with the call running on.                    *)
(*   SpecStr   string_list_add, byte by byte.                              *)
(***************************************************************************)
EXTENDS Integers, Sequences, FiniteSets, TLC

(***************************************************************************)
(* Bounds of the model.                                                    *)
(***************************************************************************)
\* most peers in a request Device
MaxPeers == 2
\* most allowed-ips under one peer of a request Device
MaxAllowedIps == 4
\* SOCKET_BUFFER_SIZE is mnl_ideal_socket_buffer_size() at run time (a page,
\* at least 8192 bytes); the model scales it down so that a handful of peers
\* and allowed-ips overflow one message.  It still holds the message header,
\* the interface name, the largest peer and one allowed-ip, as every real
\* value does.
SOCKET_BUFFER_SIZE == 200
\* most messages kernel_set_device is followed through
MaxMsgs == 11
\* most passes of kernel_get_device through try_again
MaxTries == 2
\* most peer nests in a reply given to kernel_get_device
MaxReplyPeers == 2

(***************************************************************************)
(* Program constants.                                                      *)
(***************************************************************************)
NULL == 0
AF_UNSPEC == 0
AF_INET == 2
AF_INET6 == 10
ENOENT == 2
EINTR == 4
EIO == 5
EBADF == 9
ENOMEM == 12
EACCES == 13
ENODEV == 19
EINVAL == 22
EPROTO == 71
ENETUNREACH == 101
ECONNREFUSED == 111
\* struct nlmsghdr (16) + struct genlmsghdr (4), written by mnlg_msg_prepare
NLMSG_HDRLEN == 20
MNL_ATTR_HDRLEN == 4
WG_KEY_LEN == 32
SIZEOF_SOCKADDR_IN == 16
SIZEOF_SOCKADDR_IN6 == 28
SIZEOF_IN_ADDR == 4
SIZEOF_IN6_ADDR == 16
SIZEOF_U8 == 1
SIZEOF_U16 == 2
SIZEOF_U32 == 4
\* strlen(dev->name) for the interface name "wg0"
IFNAME_LEN == 3

MNL_ALIGN(len) == ((len + 3) \div 4) * 4
AttrLen(size) == MNL_ATTR_HDRLEN + MNL_ALIGN(size)

VARIABLES
    dev,        \* the caller's struct wgdevice handed to kernel_set_device
    ks_pc,      \* kernel_set_device: "open", "again", "recv", "out"
    peer,       \* kernel_set_device: struct wgpeer *peer (index into dev.peers, NULL = 0)
    allowedip,  \* kernel_set_device: struct wgallowedip *allowedip (index, NULL = 0)
    sent,       \* the netlink messages handed to mnlg_socket_send, in order
    ks_ret,     \* kernel_set_device: ret
    store,      \* the kernel's state of the interface
    nl_sockets, \* number of open generic-netlink sockets
    kg_pc,      \* kernel_get_device: "try_again", "recv", "out", "segv"
    device,     \* kernel_get_device: *device (NULL or the decoded struct wgdevice)
    kg_ret,     \* kernel_get_device: ret
    kg_tries,   \* number of times kernel_get_device passed try_again
    kg_reply,   \* the reply messages mnlg_socket_recv_run read last
    kg_freed,   \* number of records free_wgdevice released at line 917
    ug_pc,      \* userspace_get_device: "start", "read", "done"
    ug_dev,     \* userspace_get_device: dev (NULL or the struct wgdevice being built)
    ug_peer,    \* userspace_get_device: struct wgpeer *peer (index into dev.peers, NULL = 0)
    ug_allowedip, \* userspace_get_device: struct wgallowedip *allowedip (index, NULL = 0)
    ug_ret,     \* userspace_get_device: ret
    ug_out,     \* userspace_get_device: *out
    ug_live,    \* records calloc'ed by userspace_get_device and not freed
    ug_f,       \* userspace_get_device: the stream f is open
    ug_n,       \* number of lines getline has returned
    ug_seen,    \* what the response held: the last errno= record, why reading ended
    ipc_pc,     \* ipc_get_device / ipc_set_device: "probe", "userspace", "kernel", "done"
    ipc_op,     \* "get" for ipc_get_device, "set" for ipc_set_device
    iface,      \* the interface name handed in
    sock,       \* the file at SOCK_PATH iface SOCK_SUFFIX
    ipc_probe,  \* what userspace_has_wireguard_interface returned
    ipc_calls,  \* the backend clients invoked by the call
    ipc_ret,    \* the result of the call
    env_steps,  \* number of changes other processes made to the socket file
    ipc_reply,  \* userspace_set_device: the replies fscanf was run on (none or one)
    ls_pc,      \* ipc_list_devices: "start", "recv", "opendir", "readdir", "done"
    ls_links,   \* what the kernel answers the RTM_GETLINK dump with, in order
    ls_kpos,    \* number of the answers read
    ls_kernel,  \* what kernel_get_wireguard_interfaces returned and left in the list
    ls_dir,     \* the socket directory: what opendir does and the entries readdir gives
    ls_dpos,    \* number of the entries read
    ls_unlinked, \* the socket files unlinked by the scan
    ls_list,    \* ipc_list_devices: struct string_list list
    ls_ret,     \* ipc_list_devices: ret
    ls_out,     \* what ipc_list_devices returned
    co_peers,   \* coalesce_peers: the peers of the device
    co_prev,    \* the peers before the latest pass of coalesce_peers
    co_runs,    \* number of passes of coalesce_peers made
    co_segv,    \* a pass dereferenced a NULL last_allowedip
    ks_cap,     \* kernel_set_device: SOCKET_BUFFER_SIZE, mnl_ideal_socket_buffer_size()
    bsd_pc,     \* kernel_get_device (OpenBSD): "start", "ioctl", "decode", "done", "segv"
    bsd_sock,   \* get_dgram_socket: static int sock (-1 or the descriptor)
    bsd_open,   \* number of open datagram sockets of the process
    bsd_wgdata, \* what SIOCGWG leaves in wgdata: wgd_size and the flat buffer
    bsd_dev,    \* kernel_get_device (OpenBSD): *device
    bsd_ret,    \* kernel_get_device (OpenBSD): ret
    bsd_oob,    \* the decoder read a record reaching beyond wgd_size
    bsd_calls,  \* number of calls of kernel_get_device (OpenBSD) begun
    sl_list,    \* string_list_add: the struct string_list with its buffer
    sl_calls,   \* the calls of string_list_add made: str and the value returned
    sl_oob      \* a call wrote at or beyond index cap of the buffer

ksVars == <<dev, ks_pc, peer, allowedip, sent, ks_ret, ks_cap>>
kgVars == <<kg_pc, device, kg_ret, kg_tries, kg_reply, kg_freed>>
nlVars == <<ksVars, kgVars, store, nl_sockets>>
ugVars == <<ug_pc, ug_dev, ug_peer, ug_allowedip, ug_ret, ug_out, ug_live, ug_f, ug_n,
            ug_seen>>
ipcVars == <<ipc_pc, ipc_op, iface, sock, ipc_probe, ipc_calls, ipc_ret, env_steps,
             ipc_reply>>
textVars == <<ugVars, ipcVars>>
lsVars == <<ls_pc, ls_links, ls_kpos, ls_kernel, ls_dir, ls_dpos, ls_unlinked, ls_list,
            ls_ret, ls_out>>
coVars == <<co_peers, co_prev, co_runs, co_segv>>
bsdVars == <<bsd_pc, bsd_sock, bsd_open, bsd_wgdata, bsd_dev, bsd_ret, bsd_oob, bsd_calls>>
slVars == <<sl_list, sl_calls, sl_oob>>
restVars == <<bsdVars, slVars>>
farVars == <<lsVars, coVars, restVars>>
vars == <<nlVars, ugVars, ipcVars, farVars>>

\* the variables of the calls a specification does not make
NoSeen == [has_errno |-> FALSE, errno |-> [digits |-> <<>>, tail |-> FALSE],
           over |-> FALSE, badnum |-> FALSE, late |-> FALSE, cause |-> ""]
UgIdle ==
    /\ ug_pc = "start"
    /\ ug_dev = NULL
    /\ ug_peer = NULL
    /\ ug_allowedip = NULL
    /\ ug_ret = -EPROTO
    /\ ug_out = NULL
    /\ ug_live = 0
    /\ ug_f = FALSE
    /\ ug_n = 0
    /\ ug_seen = NoSeen
IpcIdle ==
    /\ ipc_pc = "probe"
    /\ ipc_op = "get"
    /\ iface = "wg0"
    /\ sock = "absent"
    /\ ipc_probe = FALSE
    /\ ipc_calls = {}
    /\ ipc_ret = 0
    /\ env_steps = 0
    /\ ipc_reply = <<>>

\* struct string_list list = { 0 }; names: the strings the buffer holds
EmptyList == [names |-> <<>>, buffer |-> <<>>, len |-> 0, cap |-> 0]
LsIdle ==
    /\ ls_pc = "start"
    /\ ls_links = <<>>
    /\ ls_kpos = 0
    /\ ls_kernel = [ret |-> 0, names |-> <<>>]
    /\ ls_dir = [open |-> 0, entries |-> <<>>]
    /\ ls_dpos = 0
    /\ ls_unlinked = {}
    /\ ls_list = EmptyList
    /\ ls_ret = 0
    /\ ls_out = [null |-> TRUE, names |-> <<>>]
CoIdle ==
    /\ co_peers = <<>>
    /\ co_prev = <<>>
    /\ co_runs = 0
    /\ co_segv = FALSE
BsdIdle ==
    /\ bsd_pc = "start"
    /\ bsd_sock = -1
    /\ bsd_open = 0
    /\ bsd_wgdata = [wgd_size |-> 0, i_flags |-> {}, i_peers_count |-> 0, cells |-> <<>>]
    /\ bsd_dev = NULL
    /\ bsd_ret = 0
    /\ bsd_oob = FALSE
    /\ bsd_calls = 0
SlIdle ==
    /\ sl_list = EmptyList
    /\ sl_calls = <<>>
    /\ sl_oob = FALSE
RestIdle == BsdIdle /\ SlIdle
FarIdle == LsIdle /\ CoIdle /\ RestIdle

(***************************************************************************)
(* Request devices: the records a caller builds.                           *)
(***************************************************************************)
Keys == {1, 2}
DeviceFlagChoices ==
    { {},
      {"HAS_PRIVATE_KEY", "HAS_LISTEN_PORT", "HAS_FWMARK", "REPLACE_PEERS"} }
\* flags and endpoint of a peer, and the family of its allowed-ips
PeerShapes ==
    { [flags |-> {}, endpoint |-> AF_UNSPEC, family |-> AF_INET],
      [flags |-> {"HAS_PRESHARED_KEY", "HAS_PERSISTENT_KEEPALIVE_INTERVAL",
                  "REPLACE_ALLOWEDIPS"}, endpoint |-> AF_INET6, family |-> AF_INET6],
      [flags |-> {"REPLACE_ALLOWEDIPS"}, endpoint |-> AF_INET, family |-> AF_INET],
      [flags |-> {"REMOVE_ME"}, endpoint |-> AF_UNSPEC, family |-> AF_INET6] }
\* a peer has no allowed-ip, one, or as many as the bound allows
PeerChoices ==
    [key : Keys, shape : PeerShapes, n : {0, 1, MaxAllowedIps}]

\* the j-th allowed-ip of the i-th peer: every allowed-ip of a Device is distinct
MkAllowedIp(i, j, family) ==
    [family |-> family, ip |-> 10 * i + j, cidr |-> IF family = AF_INET THEN 24 ELSE 64]
MkPeer(i, c) ==
    [public_key |-> c.key, flags |-> c.shape.flags, endpoint |-> c.shape.endpoint,
     allowedips |-> [j \in 1..c.n |-> MkAllowedIp(i, j, c.shape.family)]]
\* the Devices of at most max peers
Devices(max) ==
    UNION { { [flags |-> f, peers |-> [i \in 1..n |-> MkPeer(i, c[i])]] :
                f \in DeviceFlagChoices, c \in [1..n -> PeerChoices] } : n \in 0..max }

(***************************************************************************)
(* kernel_set_device: building one message.                                *)
(***************************************************************************)
\* a run of mnl_attr_nest_start_check / mnl_attr_put*_check calls on payload
\* sizes (0 for a nest header): the new nlmsg_len, or -1 at the first one that
\* does not fit in cap
RECURSIVE PutAll(_, _, _)
PutAll(sizes, len, cap) ==
    IF sizes = <<>> THEN len
    ELSE IF len + MNL_ATTR_HDRLEN + MNL_ALIGN(Head(sizes)) > cap THEN -1
    ELSE PutAll(Tail(sizes), len + MNL_ATTR_HDRLEN + MNL_ALIGN(Head(sizes)), cap)

RECURSIVE SumAttrLen(_)
SumAttrLen(sizes) ==
    IF sizes = <<>> THEN 0 ELSE AttrLen(Head(sizes)) + SumAttrLen(Tail(sizes))

\* lines 565-578: the device-level attributes, written only while peer is NULL
DeviceAttrs(d, p) ==
    IF p = NULL
    THEN d.flags \cap {"HAS_PRIVATE_KEY", "HAS_LISTEN_PORT", "HAS_FWMARK", "REPLACE_PEERS"}
    ELSE {}
DeviceAttrSizes(attrs) ==
    (IF "HAS_PRIVATE_KEY" \in attrs THEN <<WG_KEY_LEN>> ELSE <<>>)
    \o (IF "HAS_LISTEN_PORT" \in attrs THEN <<SIZEOF_U16>> ELSE <<>>)
    \o (IF "HAS_FWMARK" \in attrs THEN <<SIZEOF_U32>> ELSE <<>>)
    \o (IF "REPLACE_PEERS" \in attrs THEN <<SIZEOF_U32>> ELSE <<>>)

\* lines 591-595: uint32_t flags of one peer entry
PeerFlagWord(p, aip) ==
    (IF "REMOVE_ME" \in p.flags THEN {"REMOVE_ME"} ELSE {})
    \cup (IF aip = NULL /\ "REPLACE_ALLOWEDIPS" \in p.flags
          THEN {"REPLACE_ALLOWEDIPS"} ELSE {})
\* lines 593-611: the per-peer attributes written only when no allowed-ip is pending
PeerOwnAttrsAlways(p, aip) ==
    (IF "HAS_PRESHARED_KEY" \in p.flags THEN {"PRESHARED_KEY"} ELSE {})
    \cup (IF p.endpoint \in {AF_INET, AF_INET6} THEN {"ENDPOINT"} ELSE {})
    \cup (IF "HAS_PERSISTENT_KEEPALIVE_INTERVAL" \in p.flags
          THEN {"PERSISTENT_KEEPALIVE_INTERVAL"} ELSE {})
PeerOwnAttrs(p, aip) ==
    IF aip = NULL
    THEN (IF "HAS_PRESHARED_KEY" \in p.flags THEN {"PRESHARED_KEY"} ELSE {})
         \cup (IF p.endpoint \in {AF_INET, AF_INET6} THEN {"ENDPOINT"} ELSE {})
         \cup (IF "HAS_PERSISTENT_KEEPALIVE_INTERVAL" \in p.flags
               THEN {"PERSISTENT_KEEPALIVE_INTERVAL"} ELSE {})
    ELSE {}
\* lines 586-615: payload sizes of the peer nest header and the peer's own attributes
PeerHeadSizes(p, aip) ==
    <<0, WG_KEY_LEN>>
    \o (IF "PRESHARED_KEY" \in PeerOwnAttrs(p, aip) THEN <<WG_KEY_LEN>> ELSE <<>>)
    \o (IF "ENDPOINT" \in PeerOwnAttrs(p, aip)
        THEN <<IF p.endpoint = AF_INET THEN SIZEOF_SOCKADDR_IN ELSE SIZEOF_SOCKADDR_IN6>>
        ELSE <<>>)
    \o (IF "PERSISTENT_KEEPALIVE_INTERVAL" \in PeerOwnAttrs(p, aip)
        THEN <<SIZEOF_U16>> ELSE <<>>)
    \o (IF PeerFlagWord(p, aip) # {} THEN <<SIZEOF_U32>> ELSE <<>>)
\* lines 623-636: payload sizes of one allowed-ip nest
AllowedIpSizes(a) ==
    <<0, SIZEOF_U16>>
    \o (IF a.family = AF_INET THEN <<SIZEOF_IN_ADDR>>
        ELSE IF a.family = AF_INET6 THEN <<SIZEOF_IN6_ADDR>> ELSE <<>>)
    \o <<SIZEOF_U8>>

\* one peer nest of a message; idx is the request peer it was built from
PeerEntry(i, p, aip, nest, aips) ==
    [idx |-> i, public_key |-> p.public_key, attrs |-> PeerOwnAttrs(p, aip),
     endpoint |-> IF "ENDPOINT" \in PeerOwnAttrs(p, aip) THEN p.endpoint ELSE AF_UNSPEC,
     flags |-> PeerFlagWord(p, aip), allowedips_nest |-> nest, allowedips |-> aips]

\* where the allowed-ip loop resumes after the one at index a did not fit
ResumeAfter(a) == a + 1
ResumeAtFirst(a) == 1
ResumeAt(a) == a

\* lines 622-639 and toobig_allowedips: the allowed-ips of p from index a on
RECURSIVE PutAllowedIps(_, _, _, _, _)
PutAllowedIps(p, a, len, cap, acc) ==
    IF a > Len(p.allowedips)
    THEN [len |-> len, allowedips |-> acc, allowedip |-> NULL]
    ELSE LET l == PutAll(AllowedIpSizes(p.allowedips[a]), len, cap)
         IN  IF l < 0
             THEN [len |-> len, allowedips |-> acc, allowedip |-> ResumeAt(a)]
             ELSE PutAllowedIps(p, a + 1, l, cap, Append(acc, p.allowedips[a]))

\* lines 583-662: the peers of d from index i on, resuming at allowed-ip a of peer i
RECURSIVE PutPeers(_, _, _, _, _, _)
PutPeers(d, i, a, len, cap, acc) ==
    IF i > Len(d.peers)
    THEN [len |-> len, peers |-> acc, peer |-> NULL, allowedip |-> a]
    ELSE
    LET p == d.peers[i]
        l1 == PutAll(PeerHeadSizes(p, a), len, cap)
        a1 == IF a = NULL THEN 1 ELSE a
        l2 == PutAll(<<0>>, l1, cap)
        r == PutAllowedIps(p, a1, l2, cap, <<>>)
    IN  IF l1 < 0
        THEN \* toobig_peers: the peer nest is cancelled
             [len |-> len, peers |-> acc, peer |-> i, allowedip |-> a]
        ELSE IF p.allowedips = <<>>
        THEN PutPeers(d, i + 1, a, l1, cap, Append(acc, PeerEntry(i, p, a, FALSE, <<>>)))
        ELSE IF l2 < 0
        THEN \* toobig_allowedips before the allowed-ips nest was opened
             [len |-> l1, peers |-> Append(acc, PeerEntry(i, p, a, FALSE, <<>>)),
              peer |-> i, allowedip |-> a1]
        ELSE IF r.allowedip # NULL
        THEN \* toobig_allowedips: the allowed-ip in progress is cancelled
             [len |-> r.len, peers |-> Append(acc, PeerEntry(i, p, a, TRUE, r.allowedips)),
              peer |-> i, allowedip |-> r.allowedip]
        ELSE PutPeers(d, i + 1, NULL, r.len, cap,
                      Append(acc, PeerEntry(i, p, a, TRUE, r.allowedips)))

\* lines 561-662: the message built at "again" and the resume pointers it leaves
BuildMessage(d, p, a, cap) ==
    LET attrs == DeviceAttrs(d, p)
        len0 == NLMSG_HDRLEN + AttrLen(IFNAME_LEN + 1) + SumAttrLen(DeviceAttrSizes(attrs))
        r == PutPeers(d, IF p # NULL THEN p ELSE 1, a, len0 + MNL_ATTR_HDRLEN, cap, <<>>)
    IN  IF d.peers = <<>>
        THEN [msg |-> [dev_attrs |-> attrs, peers_nest |-> FALSE, peers |-> <<>>,
                       len |-> len0],
              peer |-> p, allowedip |-> a]
        ELSE [msg |-> [dev_attrs |-> attrs, peers_nest |-> TRUE, peers |-> r.peers,
                       len |-> r.len],
              peer |-> r.peer, allowedip |-> r.allowedip]

(***************************************************************************)
(* The kernel's side of WG_CMD_SET_DEVICE: what one acknowledged message   *)
(* does to the interface.                                                  *)
(***************************************************************************)
EmptyStore == [attrs |-> {}, peers |-> <<>>]

PeerIndex(peers, key) ==
    IF \E i \in 1..Len(peers) : peers[i].public_key = key
    THEN CHOOSE i \in 1..Len(peers) : peers[i].public_key = key
    ELSE 0
RemoveAt(seq, i) == [j \in 1..(Len(seq) - 1) |-> IF j < i THEN seq[j] ELSE seq[j + 1]]

RECURSIVE AddAllowedIps(_, _)
AddAllowedIps(have, new) ==
    IF new = <<>> THEN have
    ELSE IF \E j \in 1..Len(have) : have[j] = Head(new)
    THEN AddAllowedIps(have, Tail(new))
    ELSE AddAllowedIps(Append(have, Head(new)), Tail(new))

StoreSetPeer(peers, e) ==
    LET i == PeerIndex(peers, e.public_key)
        old == IF i = 0
               THEN [public_key |-> e.public_key, attrs |-> {}, endpoint |-> AF_UNSPEC,
                     allowedips |-> <<>>]
               ELSE peers[i]
        new == [public_key |-> e.public_key,
                attrs |-> old.attrs \cup (e.attrs \ {"ENDPOINT"}),
                endpoint |-> IF "ENDPOINT" \in e.attrs THEN e.endpoint ELSE old.endpoint,
                allowedips |-> AddAllowedIps(
                    IF "REPLACE_ALLOWEDIPS" \in e.flags THEN <<>> ELSE old.allowedips,
                    e.allowedips)]
    IN  IF "REMOVE_ME" \in e.flags
        THEN (IF i = 0 THEN peers ELSE RemoveAt(peers, i))
        ELSE IF i = 0 THEN Append(peers, new)
        ELSE [peers EXCEPT ![i] = new]

RECURSIVE StoreSetPeers(_, _)
StoreSetPeers(peers, entries) ==
    IF entries = <<>> THEN peers
    ELSE StoreSetPeers(StoreSetPeer(peers, Head(entries)), Tail(entries))

StoreSetDevice(st, msg) ==
    [attrs |-> st.attrs \cup (msg.dev_attrs \ {"REPLACE_PEERS"}),
     peers |-> StoreSetPeers(IF "REPLACE_PEERS" \in msg.dev_attrs THEN <<>> ELSE st.peers,
                             msg.peers)]

(***************************************************************************)
(* kernel_set_device: the steps of one call.                               *)
(***************************************************************************)
\* lines 663-675: where a failed send or acknowledgement goes; p is peer
AfterFailureAgain(p) == IF p # NULL THEN "again" ELSE "out"
AfterFailure(p) == "out"

\* lines 557-559: mnlg_socket_open
KernelSetOpen ==
    /\ ks_pc = "open"
    /\ \/ /\ ks_pc' = "again"
          /\ nl_sockets' = nl_sockets + 1
          /\ UNCHANGED ks_ret
       \/ \E e \in {ENOMEM, EINVAL} :
             /\ ks_pc' = "out"
             /\ ks_ret' = -e
             /\ UNCHANGED nl_sockets
    /\ UNCHANGED <<dev, ks_cap, peer, allowedip, sent, store, kgVars, textVars, farVars>>

\* lines 561-667: build the next message and hand it to mnlg_socket_send
KernelSetSend ==
    /\ ks_pc = "again"
    /\ Len(sent) < MaxMsgs
    /\ LET b == BuildMessage(dev, peer, allowedip, ks_cap)
       IN  /\ peer' = b.peer
           /\ allowedip' = b.allowedip
           /\ \/ /\ sent' = Append(sent, b.msg)
                 /\ ks_pc' = "recv"
                 /\ UNCHANGED <<ks_ret, nl_sockets>>
              \/ \E e \in {EIO} :
                    /\ ks_ret' = -e
                    /\ ks_pc' = AfterFailure(b.peer)
                    /\ nl_sockets' = IF AfterFailure(b.peer) = "out" THEN nl_sockets - 1
                                     ELSE nl_sockets
                    /\ UNCHANGED sent
    /\ UNCHANGED <<dev, ks_cap, store, kgVars, textVars, farVars>>

\* lines 668-679: mnlg_socket_recv_run for the acknowledgement, then again or out
KernelSetRecv ==
    /\ ks_pc = "recv"
    /\ \/ /\ store' = StoreSetDevice(store, sent[Len(sent)])
          /\ IF peer # NULL
             THEN /\ ks_pc' = "again"
                  /\ UNCHANGED <<ks_ret, nl_sockets>>
             ELSE /\ ks_pc' = "out"
                  /\ ks_ret' = 0
                  /\ nl_sockets' = nl_sockets - 1
       \/ \E e \in {EINVAL, 0} :
             /\ ks_ret' = (IF e # 0 THEN -e ELSE -EINVAL)
             /\ ks_pc' = AfterFailure(peer)
             /\ nl_sockets' = IF AfterFailure(peer) = "out" THEN nl_sockets - 1
                              ELSE nl_sockets
             /\ UNCHANGED store
    /\ UNCHANGED <<dev, ks_cap, peer, allowedip, sent, kgVars, textVars, farVars>>

(***************************************************************************)
(* The kernel's side of WG_CMD_GET_DEVICE: the dump of the interface as    *)
(* netlink attributes.  A message has room for `room` units, a peer's own  *)
(* attributes and each allowed-ip taking one; a peer whose allowed-ips do  *)
(* not fit is closed and resumed in the next message with its public key   *)
(* and the remaining allowed-ips only.                                     *)
(***************************************************************************)
Attr(type, len, val) == [type |-> type, len |-> len, val |-> val]

DumpAllowedIp(a) ==
    << Attr("WGALLOWEDIP_A_FAMILY", SIZEOF_U16, a.family),
       Attr("WGALLOWEDIP_A_IPADDR",
            IF a.family = AF_INET THEN SIZEOF_IN_ADDR ELSE SIZEOF_IN6_ADDR, a.ip),
       Attr("WGALLOWEDIP_A_CIDR_MASK", SIZEOF_U8, a.cidr) >>

DumpPeer(sp, from, to) ==
    << Attr("WGPEER_A_PUBLIC_KEY", WG_KEY_LEN, sp.public_key) >>
    \o (IF from > 1 THEN <<>>
        ELSE << Attr("WGPEER_A_PRESHARED_KEY", WG_KEY_LEN,
                     IF "PRESHARED_KEY" \in sp.attrs THEN 1 ELSE 0) >>
             \o (IF sp.endpoint = AF_INET
                 THEN << Attr("WGPEER_A_ENDPOINT", SIZEOF_SOCKADDR_IN, AF_INET) >>
                 ELSE IF sp.endpoint = AF_INET6
                 THEN << Attr("WGPEER_A_ENDPOINT", SIZEOF_SOCKADDR_IN6, AF_INET6) >>
                 ELSE <<>>)
             \o << Attr("WGPEER_A_PERSISTENT_KEEPALIVE_INTERVAL", SIZEOF_U16,
                        IF "PERSISTENT_KEEPALIVE_INTERVAL" \in sp.attrs THEN 25 ELSE 0),
                   Attr("WGPEER_A_RX_BYTES", 8, 0),
                   Attr("WGPEER_A_TX_BYTES", 8, 0) >>)
    \o (IF sp.allowedips = <<>> THEN <<>>
        ELSE << Attr("WGPEER_A_ALLOWEDIPS", 0,
                     [j \in 1..(to - from + 1) |-> DumpAllowedIp(sp.allowedips[from + j - 1])]) >>)

DumpDevice(st) ==
    << Attr("WGDEVICE_A_LISTEN_PORT", SIZEOF_U16,
            IF "HAS_LISTEN_PORT" \in st.attrs THEN 51820 ELSE 0),
       Attr("WGDEVICE_A_FWMARK", SIZEOF_U32, IF "HAS_FWMARK" \in st.attrs THEN 7 ELSE 0),
       Attr("WGDEVICE_A_IFINDEX", SIZEOF_U32, 3),
       Attr("WGDEVICE_A_IFNAME", IFNAME_LEN + 1, "wg0") >>
    \o (IF "HAS_PRIVATE_KEY" \in st.attrs
        THEN << Attr("WGDEVICE_A_PRIVATE_KEY", WG_KEY_LEN, 9),
                Attr("WGDEVICE_A_PUBLIC_KEY", WG_KEY_LEN, 8) >>
        ELSE <<>>)

Min(a, b) == IF a < b THEN a ELSE b

\* i: the peer to dump next, a: its first allowed-ip not yet dumped (1 for a
\* peer not begun), left: the room left in the message, cur: its peer nests
RECURSIVE DumpFrom(_, _, _, _, _, _, _)
DumpFrom(st, i, a, left, room, cur, done) ==
    IF i > Len(st.peers)
    THEN Append(done, cur)
    ELSE IF left < 1
    THEN DumpFrom(st, i, a, room, room, <<>>, Append(done, cur))
    ELSE LET sp == st.peers[i]
             n == Min(Len(sp.allowedips) - a + 1, left - 1)
             nest == DumpPeer(sp, a, a + n - 1)
         IN  IF a + n > Len(sp.allowedips)
             THEN DumpFrom(st, i + 1, 1, left - 1 - n, room, Append(cur, nest), done)
             ELSE DumpFrom(st, i, a + n, room, room, <<>>, Append(done, Append(cur, nest)))

\* the reply messages to one dump request: the device-level attributes lead
\* the first message only
Dump(st, room) ==
    LET nests == DumpFrom(st, 1, 1, room, room, <<>>, <<>>)
    IN  [m \in 1..Len(nests) |->
            (IF m = 1 THEN DumpDevice(st) ELSE <<>>)
            \o (IF nests[m] = <<>> THEN <<>>
                ELSE << Attr("WGDEVICE_A_PEERS", 0, nests[m]) >>)]
DumpRooms == {2, 3}

(***************************************************************************)
(* kernel_get_device: decoding the reply.                                  *)
(***************************************************************************)
MNL_CB_ERROR == -1
MNL_CB_STOP == 0
MNL_CB_OK == 1

\* calloc(1, sizeof(struct wgallowedip)), calloc(1, sizeof(struct wgpeer)),
\* calloc(1, sizeof(struct wgdevice))
ZeroAllowedIp == [family |-> AF_UNSPEC, ip |-> 0, cidr |-> 0]
ZeroPeer ==
    [flags |-> {}, public_key |-> 0, preshared_key |-> 0, endpoint |-> AF_UNSPEC,
     persistent_keepalive_interval |-> 0, rx_bytes |-> 0, tx_bytes |-> 0,
     last_handshake_time |-> [tv_sec |-> 0, tv_nsec |-> 0],
     allowedips |-> <<>>, last_allowedip |-> NULL]
ZeroDevice ==
    [name |-> "", ifindex |-> 0, flags |-> {}, public_key |-> 0, private_key |-> 0,
     listen_port |-> 0, fwmark |-> 0, peers |-> <<>>]

\* lines 682-706
parse_allowedip(attr, a) ==
    CASE attr.type = "WGALLOWEDIP_A_FAMILY" ->
            IF attr.len = SIZEOF_U16 THEN [a EXCEPT !.family = attr.val] ELSE a
      [] attr.type = "WGALLOWEDIP_A_IPADDR" ->
            IF attr.len = SIZEOF_IN_ADDR \/ attr.len = SIZEOF_IN6_ADDR
            THEN [a EXCEPT !.ip = attr.val] ELSE a
      [] attr.type = "WGALLOWEDIP_A_CIDR_MASK" ->
            IF attr.len = SIZEOF_U8 THEN [a EXCEPT !.cidr = attr.val] ELSE a
      [] OTHER -> a

\* mnl_attr_parse_nested(attr, parse_allowedip, new_allowedip), line 724
RECURSIVE ParseAllowedIpAttrs(_, _)
ParseAllowedIpAttrs(attrs, a) ==
    IF attrs = <<>> THEN a
    ELSE ParseAllowedIpAttrs(Tail(attrs), parse_allowedip(Head(attrs), a))

\* line 727
AllowedIpValid(a) ==
    \/ a.family = AF_INET /\ a.cidr <= 32
    \/ a.family = AF_INET6 /\ a.cidr <= 128

\* lines 708-730; the new record is linked before it is filled and checked
parse_allowedips(nest, p) ==
    LET Linked(new) ==
            [ret |-> IF AllowedIpValid(new) THEN MNL_CB_OK ELSE MNL_CB_ERROR,
             peer |-> [p EXCEPT !.allowedips = Append(p.allowedips, new),
                                !.last_allowedip = Len(p.allowedips) + 1]]
    IN  Linked(ParseAllowedIpAttrs(nest, ZeroAllowedIp))

\* mnl_attr_parse_nested(attr, parse_allowedips, peer), line 781: stops at the
\* first callback result <= MNL_CB_STOP
RECURSIVE ParseAllowedIpsNested(_, _)
ParseAllowedIpsNested(nests, p) ==
    IF nests = <<>> THEN [ret |-> MNL_CB_OK, peer |-> p]
    ELSE LET Next(r) == IF r.ret <= MNL_CB_STOP THEN r
                         ELSE ParseAllowedIpsNested(Tail(nests), r.peer)
         IN  Next(parse_allowedips(Head(nests), p))

\* lines 732-785
parse_peer(attr, p) ==
    CASE attr.type = "WGPEER_A_PUBLIC_KEY" ->
            [ret |-> MNL_CB_OK,
             peer |-> IF attr.len = WG_KEY_LEN
                      THEN [p EXCEPT !.public_key = attr.val,
                                     !.flags = @ \cup {"HAS_PUBLIC_KEY"}]
                      ELSE p]
      [] attr.type = "WGPEER_A_PRESHARED_KEY" ->
            [ret |-> MNL_CB_OK,
             peer |-> IF attr.len = WG_KEY_LEN
                      THEN [p EXCEPT !.preshared_key = attr.val,
                                     !.flags = IF attr.val # 0
                                               THEN @ \cup {"HAS_PRESHARED_KEY"} ELSE @]
                      ELSE p]
      [] attr.type = "WGPEER_A_ENDPOINT" ->
            [ret |-> MNL_CB_OK,
             peer |-> IF \/ attr.val = AF_INET /\ attr.len = SIZEOF_SOCKADDR_IN
                         \/ attr.val = AF_INET6 /\ attr.len = SIZEOF_SOCKADDR_IN6
                      THEN [p EXCEPT !.endpoint = attr.val]
                      ELSE p]
      [] attr.type = "WGPEER_A_PERSISTENT_KEEPALIVE_INTERVAL" ->
            [ret |-> MNL_CB_OK,
             peer |-> IF attr.len = SIZEOF_U16
                      THEN [p EXCEPT !.persistent_keepalive_interval = attr.val]
                      ELSE p]
      [] attr.type = "WGPEER_A_LAST_HANDSHAKE_TIME" ->
            [ret |-> MNL_CB_OK,
             peer |-> IF attr.len = 16 THEN [p EXCEPT !.last_handshake_time = attr.val]
                      ELSE p]
      [] attr.type = "WGPEER_A_RX_BYTES" ->
            [ret |-> MNL_CB_OK,
             peer |-> IF attr.len = 8 THEN [p EXCEPT !.rx_bytes = attr.val] ELSE p]
      [] attr.type = "WGPEER_A_TX_BYTES" ->
            [ret |-> MNL_CB_OK,
             peer |-> IF attr.len = 8 THEN [p EXCEPT !.tx_bytes = attr.val] ELSE p]
      [] attr.type = "WGPEER_A_ALLOWEDIPS" -> ParseAllowedIpsNested(attr.val, p)
      [] OTHER -> [ret |-> MNL_CB_OK, peer |-> p]

\* mnl_attr_parse_nested(attr, parse_peer, new_peer), line 803
RECURSIVE ParsePeerAttrs(_, _)
ParsePeerAttrs(attrs, p) ==
    IF attrs = <<>> THEN [ret |-> MNL_CB_OK, peer |-> p]
    ELSE LET Next(r) == IF r.ret <= MNL_CB_STOP THEN r
                         ELSE ParsePeerAttrs(Tail(attrs), r.peer)
         IN  Next(parse_peer(Head(attrs), p))

\* lines 803-808: what parse_peers returns for the result ret of the nested parse
PeersResult(ret, p) ==
    IF ret = 0 THEN ret
    ELSE IF "HAS_PUBLIC_KEY" \notin p.flags THEN MNL_CB_ERROR
    ELSE MNL_CB_OK

\* lines 787-809; the new peer is linked before it is filled and checked
parse_peers(nest, d) ==
    LET Linked(r) == [ret |-> PeersResult(r.ret, r.peer),
                      device |-> [d EXCEPT !.peers = Append(d.peers, r.peer)]]
    IN  Linked(ParsePeerAttrs(nest, ZeroPeer))

\* mnl_attr_parse_nested(attr, parse_peers, device), line 849
RECURSIVE ParsePeersNested(_, _)
ParsePeersNested(nests, d) ==
    IF nests = <<>> THEN [ret |-> MNL_CB_OK, device |-> d]
    ELSE LET Next(r) == IF r.ret <= MNL_CB_STOP THEN r
                         ELSE ParsePeersNested(Tail(nests), r.device)
         IN  Next(parse_peers(Head(nests), d))

\* lines 811-853
parse_device(attr, d) ==
    CASE attr.type = "WGDEVICE_A_IFINDEX" ->
            [ret |-> MNL_CB_OK,
             device |-> IF attr.len = SIZEOF_U32 THEN [d EXCEPT !.ifindex = attr.val] ELSE d]
      [] attr.type = "WGDEVICE_A_IFNAME" ->
            [ret |-> MNL_CB_OK, device |-> [d EXCEPT !.name = attr.val]]
      [] attr.type = "WGDEVICE_A_PRIVATE_KEY" ->
            [ret |-> MNL_CB_OK,
             device |-> IF attr.len = WG_KEY_LEN
                        THEN [d EXCEPT !.private_key = attr.val,
                                       !.flags = @ \cup {"HAS_PRIVATE_KEY"}]
                        ELSE d]
      [] attr.type = "WGDEVICE_A_PUBLIC_KEY" ->
            [ret |-> MNL_CB_OK,
             device |-> IF attr.len = WG_KEY_LEN
                        THEN [d EXCEPT !.public_key = attr.val,
                                       !.flags = @ \cup {"HAS_PUBLIC_KEY"}]
                        ELSE d]
      [] attr.type = "WGDEVICE_A_LISTEN_PORT" ->
            [ret |-> MNL_CB_OK,
             device |-> IF attr.len = SIZEOF_U16 THEN [d EXCEPT !.listen_port = attr.val]
                        ELSE d]
      [] attr.type = "WGDEVICE_A_FWMARK" ->
            [ret |-> MNL_CB_OK,
             device |-> IF attr.len = SIZEOF_U32 THEN [d EXCEPT !.fwmark = attr.val] ELSE d]
      [] attr.type = "WGDEVICE_A_PEERS" -> ParsePeersNested(attr.val, d)
      [] OTHER -> [ret |-> MNL_CB_OK, device |-> d]

\* lines 855-858: mnl_attr_parse(nlh, ..., parse_device, data) over one message
RECURSIVE read_device_cb(_, _)
read_device_cb(attrs, d) ==
    IF attrs = <<>> THEN [ret |-> MNL_CB_OK, device |-> d]
    ELSE LET Next(r) == IF r.ret <= MNL_CB_STOP THEN r
                         ELSE read_device_cb(Tail(attrs), r.device)
         IN  Next(parse_device(Head(attrs), d))

\* mnlg_socket_recv_run(nlg, read_device_cb, *device), line 908, over the
\* messages of the reply
RECURSIVE RecvRun(_, _)
RecvRun(msgs, d) ==
    IF msgs = <<>> THEN [ret |-> MNL_CB_OK, device |-> d]
    ELSE LET Next(r) == IF r.ret <= MNL_CB_STOP THEN r
                         ELSE RecvRun(Tail(msgs), r.device)
         IN  Next(read_device_cb(Head(msgs), d))

\* lines 869-878: the merge of peers[i + 1] into peers[i]
MergeNone(p, n) == p
MergeNext(p, n) ==
    IF p.allowedips = <<>>
    THEN [p EXCEPT !.allowedips = n.allowedips, !.last_allowedip = n.last_allowedip]
    ELSE [p EXCEPT !.allowedips = p.allowedips \o n.allowedips,
                   !.last_allowedip = IF n.last_allowedip = NULL THEN NULL
                                      ELSE Len(p.allowedips) + n.last_allowedip]

\* lines 860-880; segv: peer->last_allowedip is NULL where line 873 dereferences it
RECURSIVE CoalesceFrom(_, _)
CoalesceFrom(peers, i) ==
    IF i >= Len(peers)
    THEN [peers |-> peers, segv |-> FALSE]
    ELSE IF peers[i].public_key # peers[i + 1].public_key
    THEN CoalesceFrom(peers, i + 1)
    ELSE IF peers[i].allowedips # <<>> /\ peers[i].last_allowedip = NULL
    THEN [peers |-> peers, segv |-> TRUE]
    ELSE CoalesceFrom(
            [j \in 1..(Len(peers) - 1) |->
                IF j < i THEN peers[j]
                ELSE IF j = i THEN MergeNext(peers[i], peers[i + 1])
                ELSE peers[j + 1]], i)
coalesce_peers(d) ==
    LET Result(r) == [device |-> [d EXCEPT !.peers = r.peers], segv |-> r.segv]
    IN  Result(CoalesceFrom(d.peers, 1))

\* the records free_wgdevice(dev) releases: the device, the peers on its
\* list and the allowed-ips on theirs
RECURSIVE CountAllowedIps(_)
CountAllowedIps(peers) ==
    IF peers = <<>> THEN 0 ELSE Len(Head(peers).allowedips) + CountAllowedIps(Tail(peers))
free_wgdevice(d) == 1 + Len(d.peers) + CountAllowedIps(d.peers)

\* line 890: *device = calloc(1, sizeof(**device)); old is what *device held
KeptDevice(old) == IF kg_tries = 0 THEN ZeroDevice ELSE old
NewDevice(old) == ZeroDevice

\* lines 917-918: if (ret == -EINTR) goto try_again
Restarts(ret) == ret = -EINTR

\* lines 888-906 and 913-924: calloc, mnlg_socket_open, the dump request
KernelGetTry ==
    /\ kg_pc = "try_again"
    /\ kg_tries < MaxTries
    /\ kg_tries' = kg_tries + 1
    /\ \/ /\ device' = NewDevice(device)
          /\ kg_ret' = 0
          /\ kg_pc' = "recv"
          /\ nl_sockets' = nl_sockets + 1
          /\ UNCHANGED kg_freed
       \/ \E e \in {ENOMEM} :
             \* calloc or mnlg_socket_open failed
             /\ device' = NULL
             /\ kg_ret' = -e
             /\ kg_pc' = "out"
             /\ UNCHANGED <<nl_sockets, kg_freed>>
       \/ \E e \in {EIO, EINTR} :
             \* mnlg_socket_send failed: out, the device freed, try_again on EINTR
             /\ kg_ret' = -e
             /\ kg_freed' = kg_freed + free_wgdevice(ZeroDevice)
             /\ IF Restarts(-e)
                THEN device' = ZeroDevice /\ kg_pc' = "try_again"
                ELSE device' = NULL /\ kg_pc' = "out"
             /\ UNCHANGED nl_sockets
    /\ UNCHANGED <<ksVars, store, kg_reply, textVars, farVars>>

\* lines 907-924: mnlg_socket_recv_run over the reply, coalesce_peers, out.
\* cuts: the numbers of messages after which the receive may fail; what
\* they held has been decoded into *device by then
KernelGetRecv(reply, cuts) ==
    /\ kg_pc = "recv"
    /\ nl_sockets' = nl_sockets - 1
    /\ \/ LET Coalesced(r, c) ==
                  IF c.segv
                  THEN /\ kg_pc' = "segv"
                       /\ device' = r.device
                       /\ UNCHANGED <<kg_ret, kg_freed>>
                  ELSE /\ kg_ret' = 0
                       /\ device' = c.device
                       /\ kg_pc' = "out"
                       /\ UNCHANGED kg_freed
              Received(r) ==
                  /\ kg_reply' = reply
                  /\ IF r.ret < 0
                     THEN /\ kg_ret' = -EINVAL
                          /\ device' = NULL
                          /\ kg_freed' = kg_freed + free_wgdevice(r.device)
                          /\ kg_pc' = "out"
                     ELSE Coalesced(r, coalesce_peers(r.device))
          IN  Received(RecvRun(reply, device))
       \/ \E k \in cuts, e \in {EINTR, EIO} :
             \* the receive failed after k messages: what was decoded is
             \* freed, and on EINTR *device is left pointing at it
             LET Failed(r) ==
                     /\ r.ret > MNL_CB_STOP
                     /\ kg_reply' = SubSeq(reply, 1, k)
                     /\ kg_ret' = -e
                     /\ kg_freed' = kg_freed + free_wgdevice(r.device)
                     /\ IF Restarts(-e)
                        THEN device' = r.device /\ kg_pc' = "try_again"
                        ELSE device' = NULL /\ kg_pc' = "out"
             IN  Failed(RecvRun(SubSeq(reply, 1, k), device))
    /\ UNCHANGED <<ksVars, store, kg_tries, textVars, farVars>>

InitSet ==
    /\ dev \in Devices(MaxPeers)
    /\ ks_pc = "open"
    /\ peer = NULL
    /\ allowedip = NULL
    /\ sent = <<>>
    /\ ks_ret = 0
    /\ ks_cap = SOCKET_BUFFER_SIZE
    /\ store = EmptyStore
    /\ nl_sockets = 0
    /\ kg_pc = "try_again"
    /\ device = NULL
    /\ kg_ret = 0
    /\ kg_tries = 0
    /\ kg_reply = <<>>
    /\ kg_freed = 0
    /\ UgIdle
    /\ IpcIdle
    /\ FarIdle

NextSet ==
    \/ KernelSetOpen
    \/ KernelSetSend
    \/ KernelSetRecv
    \/ (ks_pc = "out" /\ ks_ret = 0 /\ KernelGetTry)
    \/ \E room \in DumpRooms : KernelGetRecv(Dump(store, room), {0})

SpecSet == InitSet /\ [][NextSet]_vars

GetSucceeded == kg_pc = "out" /\ kg_ret = 0

(***************************************************************************)
(* SpecNlGet: kernel_get_device on replies that need not be well formed.   *)
(***************************************************************************)
ReplyAllowedIp(family, cidr) ==
    << Attr("WGALLOWEDIP_A_FAMILY", SIZEOF_U16, family),
       Attr("WGALLOWEDIP_A_IPADDR",
            IF family = AF_INET6 THEN SIZEOF_IN6_ADDR ELSE SIZEOF_IN_ADDR, 1),
       Attr("WGALLOWEDIP_A_CIDR_MASK", SIZEOF_U8, cidr) >>
GoodAllowedIp == ReplyAllowedIp(AF_INET, 24)
ReplyAllowedIps ==
    { GoodAllowedIp,
      ReplyAllowedIp(AF_INET, 33),
      ReplyAllowedIp(AF_INET6, 129),
      \* no family attribute
      << Attr("WGALLOWEDIP_A_IPADDR", SIZEOF_IN_ADDR, 1),
         Attr("WGALLOWEDIP_A_CIDR_MASK", SIZEOF_U8, 24) >> }
ReplyAllowedIpSeqs ==
    {<<>>} \cup {<<a>> : a \in ReplyAllowedIps}
    \cup {<<GoodAllowedIp, a>> : a \in ReplyAllowedIps}
ReplyPeer(key, aips, keyFirst) ==
    LET k == IF key = 0 THEN <<>> ELSE << Attr("WGPEER_A_PUBLIC_KEY", WG_KEY_LEN, key) >>
        a == IF aips = <<>> THEN <<>> ELSE << Attr("WGPEER_A_ALLOWEDIPS", 0, aips) >>
    IN  IF keyFirst THEN k \o a ELSE a \o k
ReplyPeers ==
    {ReplyPeer(1, aips, kf) : aips \in ReplyAllowedIpSeqs, kf \in BOOLEAN}
    \cup {ReplyPeer(0, aips, TRUE) : aips \in {<<>>, <<GoodAllowedIp>>}}
\* replies of at most max peer nests: the nests in one message, or one
\* message for each
Replies(max) ==
    UNION { { << << Attr("WGDEVICE_A_IFNAME", IFNAME_LEN + 1, "wg0"),
                    Attr("WGDEVICE_A_PEERS", 0, ps) >> >> : ps \in [1..n -> ReplyPeers] }
            \cup
            { [m \in 1..n |-> << Attr("WGDEVICE_A_PEERS", 0, <<ps[m]>>) >>] :
                 ps \in [1..n -> ReplyPeers] } : n \in 1..max }
\* one peer with its allowed-ips spread over three nests, the second of them
\* with none: the nests in one message, or one message for each
SplitPeerNests ==
    << ReplyPeer(1, <<GoodAllowedIp>>, TRUE), ReplyPeer(1, <<>>, TRUE),
       ReplyPeer(1, <<GoodAllowedIp>>, TRUE) >>
SplitPeerReplies ==
    { << << Attr("WGDEVICE_A_IFNAME", IFNAME_LEN + 1, "wg0"),
            Attr("WGDEVICE_A_PEERS", 0, SplitPeerNests) >> >>,
      [m \in 1..3 |-> << Attr("WGDEVICE_A_PEERS", 0, <<SplitPeerNests[m]>>) >>] }
\* what the kernel may answer a get with
KernelReplies == Replies(MaxReplyPeers) \cup SplitPeerReplies

InitNlGet ==
    /\ dev = [flags |-> {}, peers |-> <<>>]
    /\ ks_pc = "out"
    /\ peer = NULL
    /\ allowedip = NULL
    /\ sent = <<>>
    /\ ks_ret = 0
    /\ ks_cap = SOCKET_BUFFER_SIZE
    /\ store = EmptyStore
    /\ nl_sockets = 0
    /\ kg_pc = "try_again"
    /\ device = NULL
    /\ kg_ret = 0
    /\ kg_tries = 0
    /\ kg_reply = <<>>
    /\ kg_freed = 0
    /\ UgIdle
    /\ IpcIdle
    /\ FarIdle

NextNlGet ==
    \/ KernelGetTry
    \/ \E reply \in KernelReplies : KernelGetRecv(reply, 0..(Len(reply) - 1))

SpecNlGet == InitNlGet /\ [][NextNlGet]_vars

\* C17: the Device kernel_get_device returns is what decoding and coalescing
\* the reply of its last attempt alone gives, with nothing of an attempt
\* abandoned on EINTR; the call goes back to try_again only after EINTR,
\* never returns EINTR, and holds no open socket at try_again or once out.
C17_RestartFromEmptyDevice ==
    /\ GetSucceeded =>
          device = coalesce_peers(RecvRun(kg_reply, ZeroDevice).device).device
    /\ (kg_pc = "try_again" /\ kg_tries > 0) => kg_ret = -EINTR
    /\ kg_pc = "out" => kg_ret # -EINTR
    /\ kg_pc \in {"try_again", "out"} => nl_sockets = 0
\* the first attempt was interrupted after a message holding a peer had been
\* decoded, the second returned a device with peers
C17_Witness ==
    /\ GetSucceeded
    /\ kg_tries = 2
    /\ kg_freed > 1
    /\ device.peers # <<>>

\* kernel_get_device as a running process: at try_again and at the receive
\* the call goes on; every step of it changes the position or the number
\* of attempts
KernelGetRuns ==
    /\ kg_pc = "recv" \/ (kg_pc = "try_again" /\ kg_tries < MaxTries)
    /\ kg_pc' \in {"try_again", "recv", "out", "segv"}
    /\ kg_tries' \in {kg_tries, kg_tries + 1}
SpecNlGetFair ==
    InitNlGet /\ [][NextNlGet]_vars /\ WF_<<kg_pc, kg_tries>>(KernelGetRuns)

\* C27: kernel_get_device eventually returns unless every one of its
\* MaxTries attempts was interrupted by EINTR; an interrupted attempt never
\* returns, however many attempts were made before it.
C27_ReturnsUnlessInterrupted ==
    /\ [](kg_pc = "out" => kg_ret # -EINTR)
    /\ <>(\/ kg_pc = "out"
          \/ kg_pc = "try_again" /\ kg_tries = MaxTries /\ kg_ret = -EINTR)

\* C10: a Device that kernel_get_device returns with result 0 holds no peer
\* without a public key and no allowed-ip whose family is neither IPv4 nor
\* IPv6 or whose cidr is above 32 / 128.
C10_NoInvalidRecordReturned ==
    GetSucceeded =>
        \A i \in 1..Len(device.peers) :
            /\ "HAS_PUBLIC_KEY" \in device.peers[i].flags
            /\ \A j \in 1..Len(device.peers[i].allowedips) :
                  AllowedIpValid(device.peers[i].allowedips[j])

(***************************************************************************)
(* Claims about kernel_set_device and the round trip (SpecSet).            *)
(***************************************************************************)
RECURSIVE AllEntries(_)
AllEntries(msgs) ==
    IF msgs = <<>> THEN <<>> ELSE Head(msgs).peers \o AllEntries(Tail(msgs))
EntriesOf(msgs, i) == SelectSeq(AllEntries(msgs), LAMBDA e : e.idx = i)
RECURSIVE EntryAllowedIps(_)
EntryAllowedIps(es) ==
    IF es = <<>> THEN <<>> ELSE Head(es).allowedips \o EntryAllowedIps(Tail(es))
\* the <<public key, allowed-ip>> pairs of a sequence of peers or peer entries, in order
RECURSIVE KeyedAllowedIps(_)
KeyedAllowedIps(ps) ==
    IF ps = <<>> THEN <<>>
    ELSE [j \in 1..Len(Head(ps).allowedips) |->
             <<Head(ps).public_key, Head(ps).allowedips[j]>>]
         \o KeyedAllowedIps(Tail(ps))
RECURSIVE SumSeq(_)
SumSeq(ns) == IF ns = <<>> THEN 0 ELSE Head(ns) + SumSeq(Tail(ns))
\* the size of the single message that would carry the whole request
WholeLen(d) ==
    NLMSG_HDRLEN + AttrLen(IFNAME_LEN + 1)
    + SumAttrLen(DeviceAttrSizes(d.flags))
    + (IF d.peers = <<>> THEN 0 ELSE MNL_ATTR_HDRLEN)
    + SumSeq([i \in 1..Len(d.peers) |->
                SumAttrLen(PeerHeadSizes(d.peers[i], NULL))
                + (IF d.peers[i].allowedips = <<>> THEN 0 ELSE MNL_ATTR_HDRLEN)
                + SumSeq([j \in 1..Len(d.peers[i].allowedips) |->
                            SumAttrLen(AllowedIpSizes(d.peers[i].allowedips[j]))])])
SetSucceeded == ks_pc = "out" /\ ks_ret = 0

\* C1: when kernel_set_device has succeeded, the peer entries of the sent
\* messages, taken in send order, name the request's peers in request order
\* (none missing), the allowed-ips they carry are the request's, per peer and
\* in order, each exactly once; the device-level attributes are in the first
\* message only; and a request larger than one message went out in at least two.
C1_Chunking ==
    SetSucceeded =>
        LET es == AllEntries(sent)
        IN  /\ Len(sent) >= 1
            /\ \A k \in 1..Len(es) :
                  /\ es[k].idx \in 1..Len(dev.peers)
                  /\ es[k].public_key = dev.peers[es[k].idx].public_key
                  /\ k < Len(es) => es[k].idx <= es[k + 1].idx
            /\ \A i \in 1..Len(dev.peers) :
                  /\ EntriesOf(sent, i) # <<>>
                  /\ EntryAllowedIps(EntriesOf(sent, i)) = dev.peers[i].allowedips
            /\ KeyedAllowedIps(es) = KeyedAllowedIps(dev.peers)
            /\ sent[1].dev_attrs =
                  dev.flags \cap {"HAS_PRIVATE_KEY", "HAS_LISTEN_PORT", "HAS_FWMARK",
                                  "REPLACE_PEERS"}
            /\ \A m \in 2..Len(sent) : sent[m].dev_attrs = {}
            /\ WholeLen(dev) > SOCKET_BUFFER_SIZE => Len(sent) >= 2
\* a request with device-level attributes went out in three or more messages,
\* one of its peers with its allowed-ips in two or more of them
C1_Witness ==
    /\ SetSucceeded
    /\ Len(sent) >= 3
    /\ dev.flags # {}
    /\ Len(dev.peers) = 2
    /\ \E i \in 1..Len(dev.peers) :
          Cardinality({k \in 1..Len(EntriesOf(sent, i)) :
                          EntriesOf(sent, i)[k].allowedips # <<>>}) >= 2

\* the attributes a peer's first entry has to carry
OwnAttrsOf(p) ==
    (IF "HAS_PRESHARED_KEY" \in p.flags THEN {"PRESHARED_KEY"} ELSE {})
    \cup (IF p.endpoint \in {AF_INET, AF_INET6} THEN {"ENDPOINT"} ELSE {})
    \cup (IF "HAS_PERSISTENT_KEEPALIVE_INTERVAL" \in p.flags
          THEN {"PERSISTENT_KEEPALIVE_INTERVAL"} ELSE {})
\* C2: among the messages sent so far, the first entry of a peer carries its
\* preshared key, endpoint, keepalive interval and replace-allowed-ips flag
\* (those the request sets), and every later entry of the same peer carries
\* none of them; the entry of a peer that was rolled back is never sent, so the
\* peer's first entry, in the next message, is the full one.
C2_PeerFieldsOnce ==
    \A i \in 1..Len(dev.peers) :
        LET es == EntriesOf(sent, i)
        IN  \A k \in 1..Len(es) :
                IF k = 1
                THEN /\ es[k].attrs = OwnAttrsOf(dev.peers[i])
                     /\ es[k].endpoint = dev.peers[i].endpoint
                     /\ ("REPLACE_ALLOWEDIPS" \in es[k].flags)
                            <=> ("REPLACE_ALLOWEDIPS" \in dev.peers[i].flags)
                ELSE /\ es[k].attrs = {}
                     /\ es[k].endpoint = AF_UNSPEC
                     /\ "REPLACE_ALLOWEDIPS" \notin es[k].flags
\* a peer with all four fields went out in several entries, and a message
\* begins with a peer that had been rolled back out of the message before it
C2_Witness ==
    /\ SetSucceeded
    /\ \E i \in 1..Len(dev.peers) :
          /\ Len(EntriesOf(sent, i)) >= 2
          /\ OwnAttrsOf(dev.peers[i]) =
                {"PRESHARED_KEY", "ENDPOINT", "PERSISTENT_KEEPALIVE_INTERVAL"}
          /\ "REPLACE_ALLOWEDIPS" \in dev.peers[i].flags
    /\ \E m \in 2..Len(sent) :
          /\ sent[m].peers # <<>>
          /\ \A k \in 1..(m - 1) : \A j \in 1..Len(sent[k].peers) :
                sent[k].peers[j].idx < sent[m].peers[1].idx
          /\ sent[m].peers[1].attrs # {}

PeerKeys(peers) == {peers[i].public_key : i \in 1..Len(peers)}
AllowedIpSet(aips) == {aips[j] : j \in 1..Len(aips)}
\* the allowed-ips the request lists under a public key
RequestAllowedIps(d, key) ==
    UNION {AllowedIpSet(d.peers[i].allowedips) :
              i \in {k \in 1..Len(d.peers) : d.peers[k].public_key = key}}
RoundTrip ==
    /\ PeerKeys(device.peers) = PeerKeys(dev.peers)
    /\ \A i \in 1..Len(device.peers) :
          /\ AllowedIpSet(device.peers[i].allowedips)
                = RequestAllowedIps(dev, device.peers[i].public_key)
          /\ \A k \in 1..Len(device.peers) :
                device.peers[k].public_key = device.peers[i].public_key => k = i
\* C3 as stated: every Device that was set and read back has the request's
\* peer public keys and, per peer, the request's allowed-ips.
C3_RoundTripAnyDevice ==
    (SetSucceeded /\ GetSucceeded) => RoundTrip
\* the request removes no peer and does not replace the allowed-ips of a
\* public key it has listed before
PlainRequest(d) ==
    /\ \A i \in 1..Len(d.peers) : "REMOVE_ME" \notin d.peers[i].flags
    /\ \A i, k \in 1..Len(d.peers) :
          (i < k /\ d.peers[i].public_key = d.peers[k].public_key)
             => "REPLACE_ALLOWEDIPS" \notin d.peers[k].flags
\* C3 (amended): the round trip holds for a request that removes no peer and
\* does not replace the allowed-ips of a public key it has listed before, set
\* on an interface that had no peers.
C3_RoundTrip ==
    (SetSucceeded /\ GetSucceeded /\ PlainRequest(dev)) => RoundTrip
\* a two-peer request went out in several messages and came back with a peer
\* split over two dump messages
C3_Witness ==
    /\ SetSucceeded /\ GetSucceeded /\ PlainRequest(dev)
    /\ Len(sent) >= 2
    /\ Len(dev.peers) = 2
    /\ Len(device.peers) = 2
    /\ \E i \in 1..2 : Len(device.peers[i].allowedips) >= 3
    /\ Len(kg_reply) >= 2
    /\ \E m \in 1..(Len(kg_reply) - 1) :
          LET last == kg_reply[m][Len(kg_reply[m])].val
              first == kg_reply[m + 1][1].val
          IN  last[Len(last)][1].val = first[1][1].val

\* the types of the device-level attributes of a reply
ReplyDeviceAttrs(reply) ==
    UNION { { reply[m][a].type : a \in 1..Len(reply[m]) } : m \in 1..Len(reply) }
\* the peer nests of a reply
ReplyPeerNests(reply) ==
    UNION { UNION { IF reply[m][a].type = "WGDEVICE_A_PEERS"
                    THEN { reply[m][a].val[n] : n \in 1..Len(reply[m][a].val) }
                    ELSE {} : a \in 1..Len(reply[m]) } : m \in 1..Len(reply) }
NestValue(nest, type) ==
    { nest[a].val : a \in { b \in 1..Len(nest) : nest[b].type = type } }
\* the public keys of the peers a reply gives a persistent keepalive interval for
ReplyKeepaliveKeys(reply) ==
    UNION { NestValue(nest, "WGPEER_A_PUBLIC_KEY") :
              nest \in { n \in ReplyPeerNests(reply) :
                           NestValue(n, "WGPEER_A_PERSISTENT_KEEPALIVE_INTERVAL") # {} } }
\* C20: a Device kernel_get_device returns has HAS_LISTEN_PORT and HAS_FWMARK
\* set where the reply held a listen port and a fwmark, zero included, and
\* each of its peers the reply held a persistent keepalive interval for has
\* HAS_PERSISTENT_KEEPALIVE_INTERVAL set, as the text decoder sets them.
C20_ReportedValuesFlagged ==
    GetSucceeded =>
        /\ "WGDEVICE_A_LISTEN_PORT" \in ReplyDeviceAttrs(kg_reply) =>
              "HAS_LISTEN_PORT" \in device.flags
        /\ "WGDEVICE_A_FWMARK" \in ReplyDeviceAttrs(kg_reply) =>
              "HAS_FWMARK" \in device.flags
        /\ \A i \in 1..Len(device.peers) :
              device.peers[i].public_key \in ReplyKeepaliveKeys(kg_reply) =>
                  "HAS_PERSISTENT_KEEPALIVE_INTERVAL" \in device.peers[i].flags

(***************************************************************************)
(* The text protocol: decimal strings.  A decimal string is the sequence   *)
(* of its digits, so that values beyond the machine word are representable.*)
(***************************************************************************)
\* most lines of a response userspace_get_device is followed through
MaxLines == 4

ULLONG_MAX == <<1, 8, 4, 4, 6, 7, 4, 4, 0, 7, 3, 7, 0, 9, 5, 5, 1, 6, 1, 5>>
\* unsigned long is 64 bits wide on the LP64 targets of the tool
ULONG_MAX == ULLONG_MAX
\* the bounds handed to NUM
U16_MAX == <<6, 5, 5, 3, 5>>
U32_MAX == <<4, 2, 9, 4, 9, 6, 7, 2, 9, 5>>
S31_MAX == <<2, 1, 4, 7, 4, 8, 3, 6, 4, 7>>
S63_MAX == <<9, 2, 2, 3, 3, 7, 2, 0, 3, 6, 8, 5, 4, 7, 7, 5, 8, 0, 7>>

RECURSIVE StripZeros(_)
StripZeros(ds) == IF Len(ds) > 1 /\ Head(ds) = 0 THEN StripZeros(Tail(ds)) ELSE ds
RECURSIVE LexLeq(_, _)
LexLeq(a, b) ==
    IF a = <<>> THEN TRUE
    ELSE IF Head(a) # Head(b) THEN Head(a) < Head(b)
    ELSE LexLeq(Tail(a), Tail(b))
\* a <= b as numbers
DecLeq(a, b) ==
    \/ Len(StripZeros(a)) < Len(StripZeros(b))
    \/ Len(StripZeros(a)) = Len(StripZeros(b)) /\ LexLeq(StripZeros(a), StripZeros(b))
\* the number a decimal string denotes, for strings up to S31_MAX
RECURSIVE DecValue(_, _)
DecValue(ds, acc) == IF ds = <<>> THEN acc ELSE DecValue(Tail(ds), acc * 10 + Head(ds))
\* the low eight bits of the number a decimal string denotes
RECURSIVE DecMod256(_, _)
DecMod256(ds, acc) ==
    IF ds = <<>> THEN acc ELSE DecMod256(Tail(ds), (acc * 10 + Head(ds)) % 256)

\* strtoull(value, &end, 10) on a string that begins with a digit: the digits
\* are consumed, the result saturates at ULLONG_MAX
strtoull(ds) == IF DecLeq(ds, ULLONG_MAX) THEN StripZeros(ds) ELSE ULLONG_MAX
\* line 406: allowedip->cidr = strtoul(mask, &end, 10), cidr being a uint8_t
CidrOfMask(ds) == IF DecLeq(ds, ULONG_MAX) THEN DecMod256(ds, 0) ELSE 255
\* lines 262-271: NUM(max); ok is FALSE where the macro breaks out of the loop
NUM(value, max) ==
    IF value.digits = <<>> THEN [ok |-> FALSE, num |-> <<0>>]
    ELSE IF value.tail \/ ~DecLeq(strtoull(value.digits), max)
    THEN [ok |-> FALSE, num |-> <<0>>]
    ELSE [ok |-> TRUE, num |-> strtoull(value.digits)]

(***************************************************************************)
(* The lines a userspace server may send.  A value is described by what    *)
(* the decoder looks at: a number by its leading digits and whether other  *)
(* characters follow them, a key by whether it is 64 hex digits, an        *)
(* endpoint by its shape and by what getaddrinfo makes of it, an allowed   *)
(* ip by its address text and its mask.                                    *)
(***************************************************************************)
Kv(key, value) == [text |-> "kv", key |-> key, value |-> value]
Num(digits, tail) == [digits |-> digits, tail |-> tail]
Hex(ok, bytes) == [hex |-> ok, bytes |-> bytes]
Ip(colon, valid, slash, mask) ==
    [colon |-> colon, valid |-> valid, slash |-> slash, mask |-> mask]
BlankLine == [text |-> "blank"]
\* a line without '='
NoEqLine == [text |-> "noeq"]
\* key=value that ends the stream without a newline
NoNlLine == [text |-> "nonl"]

AllowedIpLines ==
    { Kv("allowed_ip", Ip(FALSE, TRUE, TRUE, Num(<<2, 4>>, FALSE))),
      Kv("allowed_ip", Ip(FALSE, TRUE, TRUE, Num(<<3, 3>>, FALSE))),
      Kv("allowed_ip", Ip(FALSE, TRUE, TRUE, Num(<<2, 5, 6>>, FALSE))),
      Kv("allowed_ip", Ip(FALSE, TRUE, TRUE,
                          Num(<<1, 8, 4, 4, 6, 7, 4, 4, 0, 7, 3, 7, 0, 9, 5, 5, 1, 6, 1, 6>>,
                              FALSE))),
      Kv("allowed_ip", Ip(FALSE, TRUE, TRUE, Num(<<2, 4>>, TRUE))),
      Kv("allowed_ip", Ip(FALSE, TRUE, FALSE, Num(<<>>, FALSE))),
      Kv("allowed_ip", Ip(FALSE, FALSE, TRUE, Num(<<2, 4>>, FALSE))),
      Kv("allowed_ip", Ip(TRUE, TRUE, TRUE, Num(<<1, 2, 8>>, FALSE))),
      Kv("allowed_ip", Ip(TRUE, TRUE, TRUE, Num(<<1, 2, 9>>, FALSE))),
      Kv("allowed_ip", Ip(TRUE, TRUE, TRUE, Num(<<3, 8, 4>>, FALSE))) }
Lines ==
    { BlankLine, NoEqLine, NoNlLine,
      Kv("errno", Num(<<0>>, FALSE)), Kv("errno", Num(<<5>>, FALSE)),
      Kv("errno", Num(<<>>, FALSE)),
      Kv("private_key", Hex(TRUE, 9)), Kv("private_key", Hex(FALSE, 0)),
      Kv("listen_port", Num(<<5, 1, 8, 2, 0>>, FALSE)),
      Kv("listen_port", Num(<<6, 5, 5, 3, 6>>, FALSE)),
      Kv("listen_port", Num(<<6, 5, 5, 3, 5>>, FALSE)),
      Kv("fwmark", Num(<<0>>, FALSE)),
      Kv("public_key", Hex(TRUE, 1)), Kv("public_key", Hex(FALSE, 0)),
      Kv("preshared_key", Hex(TRUE, 3)), Kv("preshared_key", Hex(TRUE, 0)),
      Kv("endpoint", "resolves"), Kv("endpoint", "unresolvable"),
      Kv("endpoint", "noport"),
      Kv("persistent_keepalive_interval", Num(<<2, 5>>, FALSE)),
      Kv("rx_bytes", Num(<<1, 0>>, FALSE)),
      \* 2^64 and 2^63
      Kv("rx_bytes", Num(<<1, 8, 4, 4, 6, 7, 4, 4, 0, 7, 3, 7, 0, 9, 5, 5, 1, 6, 1, 6>>,
                         FALSE)),
      Kv("last_handshake_time_sec",
         Num(<<9, 2, 2, 3, 3, 7, 2, 0, 3, 6, 8, 5, 4, 7, 7, 5, 8, 0, 8>>, FALSE)) }
    \cup AllowedIpLines

(***************************************************************************)
(* userspace_get_device: one pass of the getline loop.  The decoder state  *)
(* st holds dev, peer, allowedip, ret, the count of live records, and exit:*)
(* "next" to read on, "break" out of the loop, "err" for goto err.         *)
(***************************************************************************)
Break(st) == [st EXCEPT !.exit = "break"]
Err(st, ret) == [st EXCEPT !.exit = "err", !.ret = ret]

\* curve25519_generate_public, line 313
curve25519_generate_public(private_key) == private_key + 100

\* lines 310-314
KeyPrivateKey(st, value) ==
    IF ~value.hex THEN Break(st)
    ELSE [st EXCEPT !.dev.private_key = value.bytes,
                    !.dev.public_key = curve25519_generate_public(value.bytes),
                    !.dev.flags = @ \cup {"HAS_PRIVATE_KEY", "HAS_PUBLIC_KEY"}]
\* lines 315-317
KeyListenPort(st, value) ==
    LET Got(n) == IF ~n.ok THEN Break(st)
                  ELSE [st EXCEPT !.dev.listen_port = n.num,
                                  !.dev.flags = @ \cup {"HAS_LISTEN_PORT"}]
    IN  Got(NUM(value, U16_MAX))
\* lines 318-320
KeyFwmark(st, value) ==
    LET Got(n) == IF ~n.ok THEN Break(st)
                  ELSE [st EXCEPT !.dev.fwmark = n.num,
                                  !.dev.flags = @ \cup {"HAS_FWMARK"}]
    IN  Got(NUM(value, U32_MAX))
\* lines 321-336 with the new peer linked only once its key has been decoded
KeyPublicKeyLinkLate(st, value, calloc_ok) ==
    IF ~calloc_ok THEN Err(st, -ENOMEM)
    ELSE IF ~value.hex THEN Break([st EXCEPT !.live = @ + 1, !.allowedip = NULL])
    ELSE [st EXCEPT !.dev.peers =
                        Append(@, [ZeroPeer EXCEPT !.public_key = value.bytes,
                                                   !.flags = {"HAS_PUBLIC_KEY"}]),
                    !.peer = Len(st.dev.peers) + 1,
                    !.allowedip = NULL,
                    !.live = @ + 1]
\* lines 321-336: the new peer is linked into the device before its key is decoded
KeyPublicKey(st, value, calloc_ok) ==
    IF ~calloc_ok THEN Err(st, -ENOMEM)
    ELSE IF ~value.hex
    THEN Break([st EXCEPT !.dev.peers = Append(@, ZeroPeer),
                          !.peer = Len(st.dev.peers) + 1,
                          !.allowedip = NULL,
                          !.live = @ + 1])
    ELSE [st EXCEPT !.dev.peers =
                        Append(@, [ZeroPeer EXCEPT !.public_key = value.bytes,
                                                   !.flags = {"HAS_PUBLIC_KEY"}]),
                    !.peer = Len(st.dev.peers) + 1,
                    !.allowedip = NULL,
                    !.live = @ + 1]
\* key_is_zero, line 340
key_is_zero(bytes) == bytes = 0
\* lines 337-341
KeyPresharedKey(st, value) ==
    IF ~value.hex THEN Break(st)
    ELSE [st EXCEPT !.dev.peers[st.peer].preshared_key = value.bytes,
                    !.dev.peers[st.peer].flags =
                        IF key_is_zero(value.bytes) THEN @ ELSE @ \cup {"HAS_PRESHARED_KEY"}]
\* lines 342-378: "noport" stands for every value refused at the splitting at
\* ':' or ']' or resolved to another family, "unresolvable" for one getaddrinfo
\* fails on
KeyEndpoint(st, value) ==
    CASE value = "noport" -> Break(st)
      [] value = "unresolvable" -> Err(st, ENETUNREACH)
      [] OTHER -> [st EXCEPT !.dev.peers[st.peer].endpoint = AF_INET]
\* lines 379-381
KeyPersistentKeepalive(st, value) ==
    LET Got(n) ==
            IF ~n.ok THEN Break(st)
            ELSE [st EXCEPT !.dev.peers[st.peer].persistent_keepalive_interval = n.num,
                            !.dev.peers[st.peer].flags =
                                @ \cup {"HAS_PERSISTENT_KEEPALIVE_INTERVAL"}]
    IN  Got(NUM(value, U16_MAX))
\* lines 398-405: strchr(ip, ':') picks the family inet_pton is tried with
AllowedIpFamily(value) ==
    IF ~value.valid THEN AF_UNSPEC ELSE IF value.colon THEN AF_INET6 ELSE AF_INET
\* line 407
AllowedIpRefused(mask, a) ==
    \/ mask.tail
    \/ a.family = AF_UNSPEC
    \/ a.family = AF_INET6 /\ a.cidr > 128
    \/ a.family = AF_INET /\ a.cidr > 32
\* lines 382-408: the new allowed-ip is linked into the peer before it is checked
KeyAllowedIp(st, value, calloc_ok) ==
    IF ~value.slash \/ value.mask.digits = <<>> THEN Break(st)
    ELSE IF ~calloc_ok THEN Err(st, -ENOMEM)
    ELSE LET Linked(a) ==
                 [st EXCEPT !.dev.peers[st.peer].allowedips = Append(@, a),
                            !.allowedip = Len(st.dev.peers[st.peer].allowedips) + 1,
                            !.live = @ + 1,
                            !.exit = IF AllowedIpRefused(value.mask, a)
                                     THEN "break" ELSE "next"]
         IN  Linked([family |-> AllowedIpFamily(value),
                     ip |-> IF value.colon THEN "fd00::" ELSE "10.0.0.0",
                     cidr |-> CidrOfMask(value.mask.digits)])
\* lines 409-416
KeyCounter(st, value, field, max) ==
    LET Got(n) ==
            IF ~n.ok THEN Break(st)
            ELSE CASE field = "last_handshake_time_sec" ->
                        [st EXCEPT !.dev.peers[st.peer].last_handshake_time.tv_sec = n.num]
                   [] field = "last_handshake_time_nsec" ->
                        [st EXCEPT !.dev.peers[st.peer].last_handshake_time.tv_nsec = n.num]
                   [] field = "rx_bytes" ->
                        [st EXCEPT !.dev.peers[st.peer].rx_bytes = n.num]
                   [] OTHER ->
                        [st EXCEPT !.dev.peers[st.peer].tx_bytes = n.num]
    IN  Got(NUM(value, max))
\* line 418: ret = -NUM(0x7fffffffU)
ErrnoRetZero(num) == 0
ErrnoRet(num) == -num
\* lines 417-418
KeyErrno(st, value) ==
    LET Got(n) == IF ~n.ok THEN Break(st)
                  ELSE [st EXCEPT !.ret = ErrnoRet(DecValue(n.num, 0))]
    IN  Got(NUM(value, S31_MAX))

\* lines 310, 315, 318: !peer && ..., the test guarding the device-level keys
DeviceKeyAppliesAlways(p) == TRUE
DeviceKeyApplies(p) == p = NULL

\* lines 310-418: the chain of comparisons of key
KeyValue(st, key, value, calloc_ok) ==
    CASE DeviceKeyApplies(st.peer) /\ key = "private_key" -> KeyPrivateKey(st, value)
      [] DeviceKeyApplies(st.peer) /\ key = "listen_port" -> KeyListenPort(st, value)
      [] DeviceKeyApplies(st.peer) /\ key = "fwmark" -> KeyFwmark(st, value)
      [] key = "public_key" -> KeyPublicKey(st, value, calloc_ok)
      [] st.peer # NULL /\ key = "preshared_key" -> KeyPresharedKey(st, value)
      [] st.peer # NULL /\ key = "endpoint" -> KeyEndpoint(st, value)
      [] st.peer # NULL /\ key = "persistent_keepalive_interval" ->
            KeyPersistentKeepalive(st, value)
      [] st.peer # NULL /\ key = "allowed_ip" -> KeyAllowedIp(st, value, calloc_ok)
      [] st.peer # NULL /\ key = "last_handshake_time_sec" ->
            KeyCounter(st, value, key, S63_MAX)
      [] st.peer # NULL /\ key = "last_handshake_time_nsec" ->
            KeyCounter(st, value, key, S63_MAX)
      [] st.peer # NULL /\ key = "rx_bytes" -> KeyCounter(st, value, key, ULLONG_MAX)
      [] st.peer # NULL /\ key = "tx_bytes" -> KeyCounter(st, value, key, ULLONG_MAX)
      [] key = "errno" -> KeyErrno(st, value)
      [] OTHER -> st

\* lines 302-308, then the chain
ReadLine(st, line, calloc_ok) ==
    CASE line.text = "blank" -> [st EXCEPT !.exit = "err"]
      [] line.text \in {"noeq", "nonl"} -> Break(st)
      [] OTHER -> KeyValue(st, line.key, line.value, calloc_ok)

\* line 420: ret once the loop has been left
LoopExitRetKept(ret) == ret
LoopExitRet(ret) == -EPROTO

\* what the response held, for the statements about it
OverMax(value) ==
    /\ value.slash
    /\ value.valid
    /\ value.mask.digits # <<>>
    /\ ~value.mask.tail
    /\ ~DecLeq(value.mask.digits, IF value.colon THEN <<1, 2, 8>> ELSE <<3, 2>>)
\* the keys whose value is a number, and the largest number each may hold
DeviceNumKeys == {"listen_port", "fwmark"}
PeerNumKeys == {"persistent_keepalive_interval", "rx_bytes", "tx_bytes",
                "last_handshake_time_sec", "last_handshake_time_nsec"}
NumBound(key) ==
    CASE key \in {"listen_port", "persistent_keepalive_interval"} -> U16_MAX
      [] key = "fwmark" -> U32_MAX
      [] key \in {"rx_bytes", "tx_bytes"} -> ULLONG_MAX
      [] key = "errno" -> S31_MAX
      [] OTHER -> S63_MAX
\* a numeric record the decoder looks at whose value is not a string of
\* digits denoting a number within the bound of its key
BadNum(line, in_peer) ==
    /\ line.text = "kv"
    /\ \/ line.key \in DeviceNumKeys /\ ~in_peer
       \/ line.key \in PeerNumKeys /\ in_peer
       \/ line.key = "errno"
    /\ \/ line.value.digits = <<>>
       \/ line.value.tail
       \/ ~DecLeq(line.value.digits, NumBound(line.key))
Seen(seen, line, in_peer, cause) ==
    [has_errno |-> seen.has_errno \/ (line.text = "kv" /\ line.key = "errno"),
     errno |-> IF line.text = "kv" /\ line.key = "errno" THEN line.value ELSE seen.errno,
     over |-> seen.over \/ (line.text = "kv" /\ line.key = "allowed_ip" /\ in_peer
                            /\ OverMax(line.value)),
     badnum |-> seen.badnum \/ BadNum(line, in_peer),
     late |-> seen.late \/ (line.text = "kv" /\ in_peer
                            /\ line.key \in {"private_key", "listen_port", "fwmark"}),
     cause |-> cause]

\* lines 283-299: calloc of the device, userspace_interface_file, the request
UserspaceGetOpen ==
    /\ ug_pc = "start"
    /\ \/ \* calloc failed
          /\ ug_ret' = -ENOMEM
          /\ ug_pc' = "done"
          /\ UNCHANGED <<ug_dev, ug_live, ug_f, ug_out>>
       \/ \E e \in {EINVAL, EBADF, ENOENT, ECONNREFUSED} :
             \* userspace_interface_file failed: the device is freed again
             /\ ug_ret' = -e
             /\ ug_pc' = "done"
             /\ UNCHANGED <<ug_dev, ug_live, ug_f, ug_out>>
       \/ /\ ug_dev' = [ZeroDevice EXCEPT !.name = "wg0"]
          /\ ug_out' = 1
          /\ ug_live' = 1
          /\ ug_f' = TRUE
          /\ ug_pc' = "read"
          /\ UNCHANGED ug_ret
    /\ UNCHANGED <<ug_peer, ug_allowedip, ug_n, ug_seen, nlVars, ipcVars, farVars>>

\* lines 420-429: leaving the loop (exit "break" or "eof") or goto err
UserspaceGetReturn(st, seen) ==
    LET Out(ret) ==
            /\ ug_ret' = ret
            /\ IF ret # 0
               THEN /\ ug_live' = st.live - free_wgdevice(st.dev)
                    /\ ug_dev' = NULL
                    /\ ug_out' = NULL
               ELSE /\ ug_live' = st.live
                    /\ ug_dev' = st.dev
                    /\ ug_out' = 1
    IN  /\ Out(IF st.exit = "err" THEN st.ret ELSE LoopExitRet(st.ret))
        /\ ug_peer' = st.peer
        /\ ug_allowedip' = st.allowedip
        /\ ug_f' = FALSE
        /\ ug_seen' = seen
        /\ ug_pc' = "done"

\* lines 301-429: getline returned a line; the pass of the loop on it and,
\* where that leaves the loop, the rest of the function
UserspaceGetLine(line, calloc_ok) ==
    /\ ug_pc = "read"
    /\ ug_n < MaxLines
    /\ ug_n' = ug_n + 1
    /\ LET Pass(st) ==
               IF st.exit = "next"
               THEN /\ ug_dev' = st.dev
                    /\ ug_peer' = st.peer
                    /\ ug_allowedip' = st.allowedip
                    /\ ug_ret' = st.ret
                    /\ ug_live' = st.live
                    /\ ug_seen' = Seen(ug_seen, line, ug_peer # NULL, "")
                    /\ UNCHANGED <<ug_pc, ug_out, ug_f>>
               ELSE UserspaceGetReturn(
                        st, Seen(ug_seen, line, ug_peer # NULL,
                                 IF line.text = "kv" THEN st.exit ELSE line.text))
       IN  Pass(ReadLine([dev |-> ug_dev, peer |-> ug_peer, allowedip |-> ug_allowedip,
                          ret |-> ug_ret, live |-> ug_live, exit |-> "next"],
                         line, calloc_ok))
    /\ UNCHANGED <<nlVars, ipcVars, farVars>>

\* lines 301, 420-429: getline returned no line
UserspaceGetEof ==
    /\ ug_pc = "read"
    /\ UserspaceGetReturn([dev |-> ug_dev, peer |-> ug_peer, allowedip |-> ug_allowedip,
                           ret |-> ug_ret, live |-> ug_live, exit |-> "eof"],
                          [ug_seen EXCEPT !.cause = "eof"])
    /\ UNCHANGED <<ug_n, nlVars, ipcVars, farVars>>

NlIdle ==
    /\ dev = [flags |-> {}, peers |-> <<>>]
    /\ ks_pc = "out"
    /\ peer = NULL
    /\ allowedip = NULL
    /\ sent = <<>>
    /\ ks_ret = 0
    /\ ks_cap = SOCKET_BUFFER_SIZE
    /\ store = EmptyStore
    /\ nl_sockets = 0
    /\ kg_pc = "out"
    /\ device = NULL
    /\ kg_ret = 0
    /\ kg_tries = 0
    /\ kg_reply = <<>>
    /\ kg_freed = 0

InitUGet == NlIdle /\ UgIdle /\ IpcIdle /\ FarIdle

NextUGet ==
    \/ UserspaceGetOpen
    \/ \E line \in Lines, calloc_ok \in BOOLEAN : UserspaceGetLine(line, calloc_ok)
    \/ UserspaceGetEof

SpecUGet == InitUGet /\ [][NextUGet]_vars

UGetDone == ug_pc = "done"

(***************************************************************************)
(* Claims about userspace_get_device (SpecUGet).                           *)
(***************************************************************************)
\* C5: every result of get_device other than success is a negative error
\* code, whatever made the call fail.
C5_ErrorsNegative ==
    UGetDone => ug_ret <= 0

\* C6: when userspace_get_device has failed, *out is NULL and no record the
\* call allocated is still allocated; *out is a device exactly when the
\* result is 0, and then the records still allocated are those of that device.
C6_FailureFreesAll ==
    UGetDone =>
        /\ ug_ret # 0 => (ug_out = NULL /\ ug_live = 0)
        /\ (ug_out # NULL) <=> (ug_ret = 0)
        /\ ug_ret = 0 => ug_live = free_wgdevice(ug_dev)
\* the response public_key, allowed_ip /24, allowed_ip /33: the decode failed
\* at the second allowed-ip of the peer being built
C6_Witness ==
    /\ UGetDone
    /\ ug_n = 3
    /\ ug_ret = -EPROTO
    /\ ug_seen.over
    /\ ug_seen.cause = "break"
    /\ ug_peer = 1
    /\ ug_allowedip = 2
    /\ ug_out = NULL
    /\ ug_live = 0

ErrnoIsZero(value) ==
    /\ value.digits # <<>>
    /\ ~value.tail
    /\ StripZeros(value.digits) = <<0>>
\* C7: userspace_get_device returns 0 only if reading ended at a blank line
\* and the last errno= record of the response had the value 0.
C7_SuccessNeedsErrnoZero ==
    (UGetDone /\ ug_ret = 0) =>
        /\ ug_seen.cause = "blank"
        /\ ug_seen.has_errno
        /\ ErrnoIsZero(ug_seen.errno)
\* a device with a peer and an allowed-ip was returned
C7_Witness ==
    /\ UGetDone
    /\ ug_ret = 0
    /\ ug_out # NULL
    /\ ug_n = MaxLines
    /\ ug_dev.peers # <<>>
    /\ ug_dev.peers[1].allowedips # <<>>

\* C8 as stated: reading ended at a line with no '=' or no trailing newline
\* after an errno= record had been seen, and the result is the one that
\* record gives.
C8_MalformedLineKeepsErrno ==
    (UGetDone /\ ug_seen.cause \in {"noeq", "nonl"} /\ ug_seen.has_errno) =>
        ug_ret = -DecValue(ug_seen.errno.digits, 0)
\* C8: reading that ended at a line with no '=' or no trailing newline makes
\* the result -EPROTO and leaves no device, whether or not an errno= record
\* had been seen.
C8_MalformedLineIsEproto ==
    (UGetDone /\ ug_seen.cause \in {"noeq", "nonl"}) =>
        (ug_ret = -EPROTO /\ ug_out = NULL)
\* errno=0 had been read before the malformed line
C8_Witness ==
    /\ UGetDone
    /\ ug_seen.cause \in {"noeq", "nonl"}
    /\ ug_seen.has_errno
    /\ ErrnoIsZero(ug_seen.errno)
    /\ ug_ret = -EPROTO

\* C9: a response in which a peer has an allowed_ip record whose prefix
\* length is above 32 (IPv4) or 128 (IPv6) makes the decode fail and
\* returns no device.
C9_OverlongPrefixRejected ==
    (UGetDone /\ ug_seen.over) => (ug_ret # 0 /\ ug_out = NULL)

\* C11: a response holding a numeric record (listen_port, fwmark,
\* persistent_keepalive_interval, rx_bytes, tx_bytes, last_handshake_time_sec,
\* last_handshake_time_nsec, errno) whose value is empty, is not all digits or
\* denotes a number above the bound of its field makes the decode fail.
C11_NumericOutOfBoundFails ==
    (UGetDone /\ ug_seen.badnum) => (ug_ret # 0 /\ ug_out = NULL)

DeviceFields(d) == <<d.flags, d.private_key, d.public_key, d.listen_port, d.fwmark>>
\* C12: once a peer has been started, a line read leaves the Device's keys,
\* listen_port, fwmark and flags as they were; it changes no peer but the
\* one started last or a new one appended after it, and only extends the
\* allowed-ips of the peer started last.
C12_DeviceKeysOnlyBeforePeers ==
    [][(/\ ug_pc = "read"
        /\ ug_peer # NULL
        /\ (ug_pc' = "read" \/ (ug_pc' = "done" /\ ug_ret' = 0)))
       => /\ DeviceFields(ug_dev') = DeviceFields(ug_dev)
          /\ ug_peer' = Len(ug_dev'.peers)
          /\ Len(ug_dev'.peers) \in {Len(ug_dev.peers), Len(ug_dev.peers) + 1}
          /\ \A i \in 1..(Len(ug_dev.peers) - 1) : ug_dev'.peers[i] = ug_dev.peers[i]
          /\ SubSeq(ug_dev'.peers[ug_peer].allowedips, 1,
                    Len(ug_dev.peers[ug_peer].allowedips))
                = ug_dev.peers[ug_peer].allowedips]_vars
\* a device was returned whose response had a private_key, listen_port or
\* fwmark line after its public_key line: the device has none of the three
C12_Witness ==
    /\ UGetDone
    /\ ug_ret = 0
    /\ ug_seen.late
    /\ Len(ug_dev.peers) = 1
    /\ ug_dev.flags = {}

(***************************************************************************)
(* SpecIpc: ipc_get_device and ipc_set_device choosing the backend.  The   *)
(* file at the socket path is "absent", a "file" that is no socket, a      *)
(* socket a server is "live" on, one whose server is gone ("refusing":     *)
(* connect fails with ECONNREFUSED) or one connect is "denied" on (it      *)
(* fails with another error).  Other processes change it at any time.      *)
(***************************************************************************)
\* most changes other processes make to the socket file during one call
MaxEnvSteps == 2

SockStates == {"absent", "file", "live", "refusing", "denied"}
HasSlash(name) == name = "a/b"

\* lines 127-152: the result of the probe
userspace_has_wireguard_interface(name, file) ==
    /\ ~HasSlash(name)
    /\ file \notin {"absent", "file"}
    /\ file # "refusing"
\* lines 110 and 147: a socket that refuses the connection is unlinked
AfterConnect(name, file) ==
    IF ~HasSlash(name) /\ file = "refusing" THEN "absent" ELSE file

\* lines 83-125: errno of userspace_interface_file, 0 where it returns the stream
userspace_interface_file(name, file) ==
    IF HasSlash(name) THEN EINVAL
    ELSE CASE file = "absent" -> ENOENT
           [] file = "file" -> EBADF
           [] file = "refusing" -> ECONNREFUSED
           [] file = "denied" -> EACCES
           [] OTHER -> 0

\* lines 1225-1231 and 1236-1242: the client the call goes on with
BackendKernel(probe) == "kernel"
Backend(probe) == IF probe THEN "userspace" ELSE "kernel"

\* lines 1225 and 1236: userspace_has_wireguard_interface(iface)
IpcProbe ==
    /\ ipc_pc = "probe"
    /\ ipc_probe' = userspace_has_wireguard_interface(iface, sock)
    /\ sock' = AfterConnect(iface, sock)
    /\ ipc_pc' = Backend(userspace_has_wireguard_interface(iface, sock))
    /\ UNCHANGED <<ipc_op, iface, ipc_calls, ipc_ret, env_steps, ipc_reply, nlVars, ugVars, farVars>>

\* the server's reply to a set request, character by character
ErrnoEq == <<"e", "r", "r", "n", "o", "=">>
Digits == {"0", "5"}
IsSpace(c) == c \in {" ", "\n"}
SetReplies ==
    { ErrnoEq \o <<"0", "\n", "\n">>,
      ErrnoEq \o <<"5", "\n", "\n">>,
      ErrnoEq \o <<"-", "5", "\n", "\n">>,
      ErrnoEq \o <<"5", "0", "\n", "\n">>,
      \* nothing, or no errno line
      <<>>,
      <<"\n">>,
      <<"e", "r", "r", "=", "0", "\n", "\n">>,
      \* no integer
      ErrnoEq \o <<"x", "\n", "\n">>,
      ErrnoEq \o <<"\n", "\n">>,
      ErrnoEq \o <<"-", "\n", "\n">>,
      \* the stream ends after the errno line, or within it
      ErrnoEq \o <<"0", "\n">>,
      ErrnoEq \o <<"0">>,
      \* another line follows the errno line
      ErrnoEq \o <<"0", "\n", "x", "\n">>,
      \* characters around the integer
      ErrnoEq \o <<"0", "x", "\n", "\n">>,
      ErrnoEq \o <<" ", "0", "\n", "\n">>,
      ErrnoEq \o <<"\n", "5", "\n", "\n">> }

\* fscanf: an ordinary character of the format matches the same character
RECURSIVE MatchLiteral(_, _)
MatchLiteral(in, lit) ==
    IF lit = <<>> THEN [ok |-> TRUE, rest |-> in]
    ELSE IF in = <<>> \/ Head(in) # Head(lit) THEN [ok |-> FALSE, rest |-> in]
    ELSE MatchLiteral(Tail(in), Tail(lit))
\* fscanf: %d and white space in the format skip any white space of the input
RECURSIVE SkipSpace(_)
SkipSpace(in) == IF in # <<>> /\ IsSpace(Head(in)) THEN SkipSpace(Tail(in)) ELSE in
DigitValue(c) == IF c = "5" THEN 5 ELSE 0
\* fscanf: the digits %d converts, n counting them
RECURSIVE ScanDigits(_, _, _)
ScanDigits(in, acc, n) ==
    IF in # <<>> /\ Head(in) \in Digits
    THEN ScanDigits(Tail(in), acc * 10 + DigitValue(Head(in)), n + 1)
    ELSE [n |-> n, value |-> acc, rest |-> in]
\* fscanf: %d, an optional sign and a non-empty run of digits
ScanInt(in) ==
    LET Signed(sign, d) == [ok |-> d.n > 0, value |-> sign * d.value, rest |-> d.rest]
    IN  IF in # <<>> /\ Head(in) = "-"
        THEN Signed(-1, ScanDigits(Tail(in), 0, 0))
        ELSE Signed(1, ScanDigits(in, 0, 0))
\* line 255: fscanf(f, "errno=%d\n\n", &ret), the number of conversions and ret;
\* the white space that ends the format matches any white space, none included
fscanf_errno(reply) ==
    LET Converted(i) == IF i.ok THEN [n |-> 1, ret |-> i.value] ELSE [n |-> 0, ret |-> 0]
        Matched(m) == IF m.ok THEN Converted(ScanInt(SkipSpace(m.rest)))
                      ELSE [n |-> 0, ret |-> 0]
    IN  Matched(MatchLiteral(reply, ErrnoEq))
\* lines 255-259: the result userspace_set_device makes of the server's reply,
\* errno being what reading the stream left in errno
SetReplyRet(reply, errno) ==
    LET Scanned(r) == IF r.n # 1 THEN (IF errno # 0 THEN -errno ELSE -EPROTO) ELSE r.ret
    IN  Scanned(fscanf_errno(reply))
\* the results of userspace_get_device once the stream is open (SpecUGet)
GetResults == {0, -EPROTO, -ENOMEM, ENETUNREACH, -EIO}

\* lines 1226 and 1237: userspace_get_device or userspace_set_device
IpcUserspace ==
    /\ ipc_pc = "userspace"
    /\ ipc_calls' = ipc_calls \cup {"userspace"}
    /\ sock' = AfterConnect(iface, sock)
    /\ IF userspace_interface_file(iface, sock) # 0
       THEN /\ ipc_ret' = -userspace_interface_file(iface, sock)
            /\ UNCHANGED ipc_reply
       ELSE IF ipc_op = "get"
       THEN /\ \E r \in GetResults : ipc_ret' = r
            /\ UNCHANGED ipc_reply
       ELSE \E reply \in SetReplies, errno \in {0, EIO} :
               /\ ipc_ret' = SetReplyRet(reply, errno)
               /\ ipc_reply' = <<reply>>
    /\ ipc_pc' = "done"
    /\ UNCHANGED <<ipc_op, iface, ipc_probe, env_steps, nlVars, ugVars, farVars>>

\* lines 1228 and 1239: kernel_get_device or kernel_set_device
IpcKernel ==
    /\ ipc_pc = "kernel"
    /\ ipc_calls' = ipc_calls \cup {"kernel"}
    /\ \E r \in {0, -ENODEV, -EINVAL} : ipc_ret' = r
    /\ ipc_pc' = "done"
    /\ UNCHANGED <<ipc_op, iface, sock, ipc_probe, env_steps, ipc_reply, nlVars, ugVars, farVars>>

\* another process creates, removes or replaces the file, or the server
\* behind the socket starts or exits
EnvChange ==
    /\ ipc_pc # "done"
    /\ env_steps < MaxEnvSteps
    /\ env_steps' = env_steps + 1
    /\ \E to \in SockStates \ {sock} : sock' = to
    /\ UNCHANGED <<ipc_pc, ipc_op, iface, ipc_probe, ipc_calls, ipc_ret, ipc_reply,
                   nlVars, ugVars, farVars>>

InitIpc ==
    /\ NlIdle
    /\ UgIdle
    /\ FarIdle
    /\ ipc_pc = "probe"
    /\ ipc_op \in {"get", "set"}
    /\ iface \in {"wg0", "a/b"}
    /\ sock \in SockStates
    /\ ipc_probe = FALSE
    /\ ipc_calls = {}
    /\ ipc_ret = 0
    /\ env_steps = 0
    /\ ipc_reply = <<>>

NextIpc == IpcProbe \/ IpcUserspace \/ IpcKernel \/ EnvChange

SpecIpc == InitIpc /\ [][NextIpc]_vars

IpcDone == ipc_pc = "done"

\* C4: a call whose probe reported a live userspace socket has invoked the
\* text-protocol client and never the kernel client, also where the text
\* operation failed; a call whose probe reported none has invoked the kernel
\* client only.
C4_ExclusiveDispatch ==
    /\ IpcDone =>
          ipc_calls = (IF ipc_probe THEN {"userspace"} ELSE {"kernel"})
    /\ ~IpcDone =>
          /\ ipc_calls = {}
          /\ ipc_pc = "userspace" => ipc_probe
          /\ ipc_pc = "kernel" => ~ipc_probe
\* the socket vanished between the probe and the second connect: the text
\* operation failed and the kernel client was not tried
C4_Witness ==
    /\ IpcDone
    /\ ipc_probe
    /\ ipc_ret = -ENOENT
    /\ sock = "absent"
    /\ ipc_calls = {"userspace"}

\* a reply that is one line errno=<integer> and one blank line
WellFormedSetReply(reply) ==
    /\ Len(reply) >= 9
    /\ SubSeq(reply, 1, 6) = ErrnoEq
    /\ SubSeq(reply, Len(reply) - 1, Len(reply)) = <<"\n", "\n">>
    /\ LET int == SubSeq(reply, 7, Len(reply) - 2)
           digits == IF Head(int) = "-" THEN Tail(int) ELSE int
       IN  /\ digits # <<>>
           /\ \A i \in 1..Len(digits) : digits[i] \in Digits
\* C13: userspace_set_device fails on every reply of the server that is not
\* exactly one line errno=<integer> followed by a blank line.
C13_OnlyErrnoLineAndBlankAccepted ==
    (IpcDone /\ ipc_reply # <<>> /\ ~WellFormedSetReply(ipc_reply[1])) => ipc_ret < 0

\* C14: userspace_has_wireguard_interface reports a name as a userspace
\* interface exactly when the name has no '/', the entry at the socket path
\* is a socket and connecting to it succeeds.
C14_ProbeIffConnectSucceeds ==
    [][(ipc_pc = "probe" /\ ipc_pc' # "probe")
       => (ipc_probe' <=> (~HasSlash(iface) /\ sock = "live"))]_vars

(***************************************************************************)
(* SpecList: ipc_list_devices.  The kernel answers the link dump with a    *)
(* run of events: a link message (its IFLA_IFNAME and whether its          *)
(* IFLA_INFO_KIND is "wireguard"), a failure of mnl_cb_run with its errno  *)
(* (EINTR for a message flagged NLM_F_DUMP_INTR), or a failure of          *)
(* mnl_socket_recvfrom; the run ending stands for NLMSG_DONE.  The socket  *)
(* directory is what opendir does and the entries readdir returns.         *)
(***************************************************************************)
\* most link messages of a dump, most entries of the socket directory
MaxLinks == 2
MaxEntries == 2

Link(name, is_wireguard) ==
    [type |-> "link", name |-> name, is_wireguard |-> is_wireguard, errno |-> 0]
CbErr(errno) == [type |-> "cb_err", name |-> "", is_wireguard |-> FALSE, errno |-> errno]
RecvErr(errno) ==
    [type |-> "recv_err", name |-> "", is_wireguard |-> FALSE, errno |-> errno]
\* wg0 is also met as an interface of another kind: the tun device of a
\* userspace implementation
LinkEvents ==
    { Link("wg0", TRUE), Link("wg1", TRUE), Link("wg0", FALSE),
      CbErr(EINTR), CbErr(EIO), RecvErr(EINTR) }
\* the names of a sequence of records are distinct
DistinctNames(seq, Name(_)) ==
    \A i, j \in 1..Len(seq) : (i # j /\ Name(seq[i]) # "") => Name(seq[i]) # Name(seq[j])
LinkName(ev) == ev.name
\* the dumps of at most max events; an interface name is met once in a dump
Links(max) ==
    UNION { { l \in [1..n -> LinkEvents] : DistinctNames(l, LinkName) } : n \in 0..max }

SOCK_SUFFIX == ".sock"
Entry(stem, ext, state) == [stem |-> stem, ext |-> ext, state |-> state]
DirEntries ==
    { Entry("wg0", SOCK_SUFFIX, "live"), Entry("wg1", SOCK_SUFFIX, "live"),
      Entry("stale", SOCK_SUFFIX, "refusing"), Entry("wg0", SOCK_SUFFIX, "denied"),
      Entry("wg1", SOCK_SUFFIX, "file"), Entry("", SOCK_SUFFIX, "live"),
      Entry("wg1", ".pid", "file") }
EntryName(e) == e.stem \o e.ext
\* the directories of at most max entries; opendir fails on an empty one only
Dirs(max) ==
    UNION { { [open |-> 0, entries |-> es] :
                es \in { l \in [1..n -> DirEntries] : DistinctNames(l, EntryName) } }
            : n \in 0..max }
    \cup { [open |-> e, entries |-> <<>>] : e \in {ENOENT, EACCES} }

strlen(str) ==
    CASE str = "" -> 0
      [] str \in {"wg0", "wg1"} -> 3
      [] OTHER -> 5

\* the characters of str; NUL is the terminating '\0', JUNK a byte of the
\* buffer that realloc left uninitialised
NUL == "NUL"
JUNK == "?"
Bytes(str) ==
    CASE str = "" -> <<>>
      [] str = "wg0" -> <<"w", "g", "0">>
      [] str = "wg1" -> <<"w", "g", "1">>
      [] OTHER -> <<"s", "t", "a", "l", "e">>
\* realloc(buffer, new_cap): the old bytes, then uninitialised ones
realloc(buffer, new_cap) == buffer \o [i \in 1..(new_cap - Len(buffer)) |-> JUNK]
\* memcpy(buffer + at, src, Len(src)) on a buffer of cap bytes, indexed from
\* 0; a byte at or beyond cap is outside the buffer
memcpy(buffer, at, src) ==
    [i \in 1..Len(buffer) |->
        IF i - 1 >= at /\ i - 1 < at + Len(src) THEN src[i - at] ELSE buffer[i]]
\* line 64: len >= list->cap - list->len
GrowNeededLate(len, room) == len > room
GrowNeeded(len, room) == len >= room

\* lines 57-80; oob: a byte was written at or beyond index cap
string_list_add(list, str, realloc_ok) ==
    LET len == strlen(str) + 1
        new_cap == IF list.cap * 2 < list.len + len + 1 THEN list.len + len + 1
                   ELSE list.cap * 2
        Copied(l) == [ret |-> 0,
                      oob |-> l.len + len >= l.cap,
                      list |-> [l EXCEPT !.names = Append(@, str),
                                         !.buffer = memcpy(memcpy(@, l.len,
                                                                  Bytes(str) \o <<NUL>>),
                                                           l.len + len, <<NUL>>),
                                         !.len = @ + len]]
    IN  IF len = 1 THEN [ret |-> 0, oob |-> FALSE, list |-> list]
        ELSE IF GrowNeeded(len, list.cap - list.len)
        THEN (IF ~realloc_ok THEN [ret |-> -ENOMEM, oob |-> FALSE, list |-> list]
              ELSE Copied([list EXCEPT !.cap = new_cap,
                                       !.buffer = realloc(@, new_cap)]))
        ELSE Copied(list)

\* line 470: interface.name && interface.is_wireguard
InterfaceListedAnyKind(name, is_wireguard) == name # ""
InterfaceListed(name, is_wireguard) == name # "" /\ is_wireguard
\* lines 461-477: ret as tested at line 472
read_devices_cb(list, ev, realloc_ok) ==
    IF InterfaceListed(ev.name, ev.is_wireguard)
    THEN string_list_add(list, ev.name, realloc_ok)
    ELSE [ret |-> MNL_CB_OK, oob |-> FALSE, list |-> list]
\* lines 526-539: ret of kernel_get_wireguard_interfaces once mnl_cb_run failed
RunErrRetAlways(errno) == -errno
RunErrRet(errno) == IF errno = EINTR THEN 0 ELSE -errno

\* lines 1208-1213: cleanup with a non-zero ret
ListFail(ret) ==
    /\ ls_ret' = ret
    /\ ls_list' = EmptyList
    /\ ls_out' = [null |-> TRUE, names |-> <<>>]
    /\ ls_pc' = "done"
\* lines 1208-1214: cleanup with ret 0
ListReturn(list) ==
    /\ ls_ret' = 0
    /\ ls_list' = list
    /\ ls_out' = [null |-> FALSE, names |-> list.names]
    /\ ls_pc' = "done"
\* kernel_get_wireguard_interfaces returned ret with list
KernelListed(ret, list) ==
    /\ ls_kernel' = [ret |-> ret, names |-> list.names]
    /\ IF ret < 0 THEN ListFail(ret)
       ELSE /\ ls_list' = list
            /\ ls_ret' = ret
            /\ ls_pc' = "opendir"
            /\ UNCHANGED ls_out

\* lines 1196-1200 and 490-519: the buffer, the socket, the dump request
ListStart ==
    /\ ls_pc = "start"
    /\ \/ /\ ls_pc' = "recv"
          /\ UNCHANGED <<ls_kernel, ls_list, ls_ret, ls_out>>
       \/ \E e \in {ENOMEM, EIO} : KernelListed(-e, ls_list)
    /\ UNCHANGED <<ls_links, ls_kpos, ls_dir, ls_dpos, ls_unlinked, nlVars, textVars, coVars, restVars>>

\* lines 521-545 and 461-477: the next answer of the kernel
ListRecv(realloc_ok) ==
    /\ ls_pc = "recv"
    /\ IF ls_kpos >= Len(ls_links)
       THEN \* NLMSG_DONE
            /\ KernelListed(0, ls_list)
            /\ UNCHANGED ls_kpos
       ELSE LET ev == ls_links[ls_kpos + 1]
                Added(r) ==
                    IF r.ret < 0 THEN KernelListed(r.ret, r.list)
                    ELSE /\ ls_list' = r.list
                         /\ UNCHANGED <<ls_pc, ls_kernel, ls_ret, ls_out>>
            IN  /\ ls_kpos' = ls_kpos + 1
                /\ CASE ev.type = "recv_err" -> KernelListed(-ev.errno, ls_list)
                     [] ev.type = "cb_err" -> KernelListed(RunErrRet(ev.errno), ls_list)
                     [] OTHER -> Added(read_devices_cb(ls_list, ev, realloc_ok))
    /\ UNCHANGED <<ls_links, ls_dir, ls_dpos, ls_unlinked, nlVars, textVars, coVars, restVars>>

\* lines 1204-1206 and 162-164: opendir(SOCK_PATH)
ListOpendir ==
    /\ ls_pc = "opendir"
    /\ IF ls_dir.open = 0
       THEN /\ ls_pc' = "readdir"
            /\ UNCHANGED <<ls_list, ls_ret, ls_out>>
       ELSE IF ls_dir.open = ENOENT THEN ListReturn(ls_list)
       ELSE ListFail(-ls_dir.open)
    /\ UNCHANGED <<ls_links, ls_kpos, ls_kernel, ls_dir, ls_dpos, ls_unlinked,
                   nlVars, textVars, coVars, restVars>>

\* lines 166-171: the entry is longer than the suffix and ends in it
HasSockSuffix(e) == e.stem # "" /\ e.ext = SOCK_SUFFIX

\* lines 165-181 and 1205-1214: the next entry of the directory
ListReaddir(realloc_ok) ==
    /\ ls_pc = "readdir"
    /\ IF ls_dpos >= Len(ls_dir.entries)
       THEN /\ ListReturn(ls_list)
            /\ UNCHANGED <<ls_dpos, ls_unlinked>>
       ELSE LET e == ls_dir.entries[ls_dpos + 1]
                Added(r) ==
                    IF r.ret < 0 THEN ListFail(r.ret)
                    ELSE /\ ls_list' = r.list
                         /\ UNCHANGED <<ls_pc, ls_ret, ls_out>>
            IN  /\ ls_dpos' = ls_dpos + 1
                /\ IF ~HasSockSuffix(e)
                   THEN UNCHANGED <<ls_pc, ls_list, ls_ret, ls_out, ls_unlinked>>
                   ELSE /\ ls_unlinked' =
                              IF AfterConnect(e.stem, e.state) # e.state
                              THEN ls_unlinked \cup {e.stem} ELSE ls_unlinked
                        /\ IF userspace_has_wireguard_interface(e.stem, e.state)
                           THEN Added(string_list_add(ls_list, e.stem, realloc_ok))
                           ELSE UNCHANGED <<ls_pc, ls_list, ls_ret, ls_out>>
    /\ UNCHANGED <<ls_links, ls_kpos, ls_kernel, ls_dir, nlVars, textVars, coVars, restVars>>

InitList ==
    /\ NlIdle
    /\ UgIdle
    /\ IpcIdle
    /\ CoIdle
    /\ RestIdle
    /\ ls_pc = "start"
    /\ ls_links \in Links(MaxLinks)
    /\ ls_kpos = 0
    /\ ls_kernel = [ret |-> 0, names |-> <<>>]
    /\ ls_dir \in Dirs(MaxEntries)
    /\ ls_dpos = 0
    /\ ls_unlinked = {}
    /\ ls_list = EmptyList
    /\ ls_ret = 0
    /\ ls_out = [null |-> TRUE, names |-> <<>>]

NextList ==
    \/ ListStart
    \/ \E realloc_ok \in BOOLEAN : ListRecv(realloc_ok)
    \/ ListOpendir
    \/ \E realloc_ok \in BOOLEAN : ListReaddir(realloc_ok)

SpecList == InitList /\ [][NextList]_vars

ListDone == ls_pc = "done"
ListReturned == ListDone /\ ~ls_out.null

(***************************************************************************)
(* Claims about ipc_list_devices (SpecList).                               *)
(***************************************************************************)
RECURSIVE WgLinkNames(_)
WgLinkNames(links) ==
    IF links = <<>> THEN <<>>
    ELSE (IF Head(links).type = "link" /\ Head(links).is_wireguard /\ Head(links).name # ""
          THEN <<Head(links).name>> ELSE <<>>) \o WgLinkNames(Tail(links))
RECURSIVE LiveStems(_)
LiveStems(entries) ==
    IF entries = <<>> THEN <<>>
    ELSE (IF Head(entries).ext = SOCK_SUFFIX /\ Head(entries).stem # ""
             /\ Head(entries).state = "live"
          THEN <<Head(entries).stem>> ELSE <<>>) \o LiveStems(Tail(entries))
SockStems(entries, states) ==
    { entries[i].stem : i \in { j \in 1..Len(entries) :
                                    /\ entries[j].ext = SOCK_SUFFIX
                                    /\ entries[j].stem # ""
                                    /\ entries[j].state \in states } }
Range(seq) == { seq[i] : i \in 1..Len(seq) }
NoDuplicates(seq) == \A i, j \in 1..Len(seq) : i # j => seq[i] # seq[j]
\* the names the scan of the socket directory added to the list
UserPart == SubSeq(ls_out.names, Len(ls_kernel.names) + 1, Len(ls_out.names))

\* C15: when the scan of the socket directory has run to its end, the names
\* it added are exactly the *.sock entries whose connect succeeds, without
\* the suffix and in directory order, and the socket files unlinked are
\* exactly those whose connect is refused.
C15_ScanReportsLiveSockets ==
    (ListReturned /\ ls_dir.open = 0) =>
        /\ UserPart = LiveStems(ls_dir.entries)
        /\ ls_unlinked = SockStems(ls_dir.entries, {"refusing"})

\* C16 as stated: no name is twice in the list ipc_list_devices returns,
\* whatever the kernel's interfaces and the socket directory are.
C16_NoDuplicatesAnyState ==
    ListReturned => NoDuplicates(ls_out.names)
\* no name is both a WireGuard interface of the kernel's dump and the name of
\* a *.sock entry of the socket directory
OneBackendPerName ==
    Range(WgLinkNames(ls_links)) \cap SockStems(ls_dir.entries, SockStates) = {}
\* C16: where no name is both a kernel WireGuard interface and a *.sock
\* entry, no name is twice in the list ipc_list_devices returns.
C16_NoDuplicatesOneBackendPerName ==
    (ListReturned /\ OneBackendPerName) => NoDuplicates(ls_out.names)
\* wg1 is a kernel interface, wg0 a userspace one whose tun device the dump
\* lists as an interface of another kind
C16_Witness ==
    /\ ListReturned
    /\ OneBackendPerName
    /\ ls_links = <<Link("wg1", TRUE), Link("wg0", FALSE)>>
    /\ ls_out.names = <<"wg1", "wg0">>

KernelReturned == ls_pc \notin {"start", "recv"}
\* C18: a dump that mnl_cb_run ends with EINTR makes
\* kernel_get_wireguard_interfaces return 0 with the WireGuard names of the
\* messages before it in the list; when mnl_cb_run or mnl_socket_recvfrom
\* fails otherwise the call returns that error; and whenever the call has
\* returned an error ipc_list_devices returns NULL with that error.
C18_InterruptedDumpKeepsPartial ==
    KernelReturned =>
        /\ (ls_kpos >= 1 /\ ls_links[ls_kpos] = CbErr(EINTR)) =>
              ls_kernel = [ret |-> 0,
                           names |-> WgLinkNames(SubSeq(ls_links, 1, ls_kpos - 1))]
        /\ (ls_kpos >= 1 /\ ls_links[ls_kpos].type # "link"
            /\ ls_links[ls_kpos] # CbErr(EINTR)) =>
              ls_kernel.ret = -ls_links[ls_kpos].errno
        /\ ls_kernel.ret < 0 => (ListDone /\ ls_out.null /\ ls_ret = ls_kernel.ret)
\* the dump was interrupted after wg0: the list returned begins with wg0
C18_Witness ==
    /\ ListReturned
    /\ ls_links = <<Link("wg0", TRUE), CbErr(EINTR)>>
    /\ ls_kpos = 2
    /\ ls_kernel = [ret |-> 0, names |-> <<"wg0">>]
    /\ ls_out.names[1] = "wg0"

(***************************************************************************)
(* SpecCoalesce: coalesce_peers run again and again on the peers           *)
(* parse_peers has decoded.                                                *)
(***************************************************************************)
\* most peers decoded, most passes of coalesce_peers
MaxRun == 3
MaxPasses == 2

\* the peers parse_peers links for a nest with a public key and no, one or
\* two allowed-ips
DecodedPeers ==
    { ParsePeerAttrs(ReplyPeer(key, aips, TRUE), ZeroPeer).peer :
        key \in Keys,
        aips \in { <<>>, <<ReplyAllowedIp(AF_INET, 24)>>,
                   <<ReplyAllowedIp(AF_INET, 16), ReplyAllowedIp(AF_INET6, 64)>> } }
DecodedRuns(max) == UNION { [1..n -> DecodedPeers] : n \in 0..max }

\* lines 860-880: one call of coalesce_peers
CoalescePass ==
    /\ co_runs < MaxPasses
    /\ ~co_segv
    /\ LET Passed(r) ==
               /\ co_peers' = r.peers
               /\ co_segv' = r.segv
       IN  Passed(CoalesceFrom(co_peers, 1))
    /\ co_prev' = co_peers
    /\ co_runs' = co_runs + 1
    /\ UNCHANGED <<nlVars, textVars, lsVars, restVars>>

InitCoalesce ==
    /\ NlIdle
    /\ UgIdle
    /\ IpcIdle
    /\ LsIdle
    /\ RestIdle
    /\ co_peers \in DecodedRuns(MaxRun)
    /\ co_prev = <<>>
    /\ co_runs = 0
    /\ co_segv = FALSE

NextCoalesce == CoalescePass

SpecCoalesce == InitCoalesce /\ [][NextCoalesce]_vars

\* the public keys of a peer sequence and the allowed-ips of each peer
PeerLists(peers) ==
    [i \in 1..Len(peers) |->
        [public_key |-> peers[i].public_key, allowedips |-> peers[i].allowedips]]
\* C19: a pass of coalesce_peers runs to its end on every decoded peer
\* sequence and leaves no two adjacent peers with the same public key, and a
\* second pass leaves the peers and their allowed-ips as the first left them.
C19_CoalesceIdempotent ==
    /\ ~co_segv
    /\ co_runs >= 1 =>
          \A i \in 1..(Len(co_peers) - 1) :
              co_peers[i].public_key # co_peers[i + 1].public_key
    /\ co_runs = 2 => PeerLists(co_peers) = PeerLists(co_prev)

\* the peers with every maximal run of adjacent equal public keys replaced by
\* one peer holding the allowed-ips of the run in order
RECURSIVE MergedRuns(_)
MergedRuns(peers) ==
    IF peers = <<>> THEN <<>>
    ELSE LET Join(rest) ==
                 IF rest # <<>> /\ rest[1].public_key = Head(peers).public_key
                 THEN << [public_key |-> Head(peers).public_key,
                          allowedips |-> Head(peers).allowedips \o rest[1].allowedips] >>
                      \o Tail(rest)
                 ELSE << [public_key |-> Head(peers).public_key,
                          allowedips |-> Head(peers).allowedips] >> \o rest
         IN  Join(MergedRuns(Tail(peers)))
\* C24: coalesce_peers merges each maximal run of adjacent peers with the
\* same public key into the first peer of the run, whose allowed-ips become
\* the allowed-ips of the run in order, also where a peer of the run has no
\* allowed-ip; last_allowedip of every peer is the last element of its list
\* (NULL for an empty list), and no NULL last_allowedip is dereferenced.
C24_CoalesceConcatenates ==
    /\ ~co_segv
    /\ co_runs = 1 =>
          /\ PeerLists(co_peers) = MergedRuns(co_prev)
          /\ \A i \in 1..Len(co_peers) :
                co_peers[i].last_allowedip = Len(co_peers[i].allowedips)

(***************************************************************************)
(* SpecBsd: kernel_get_device of OpenBSD (lines 970-1087) decoding the     *)
(* flat buffer that SIOCGWG fills: one struct wg_interface_io, then for    *)
(* each peer one struct wg_peer_io followed by its struct wg_aip_io        *)
(* records.  wgd_size is the length the kernel reports.  The counts of     *)
(* the buffer are the kernel's; the length may be short of what they       *)
(* imply.  A read that reaches beyond wgd_size is undefined: it gives any  *)
(* record (Garbage) or ends the process.                                   *)
(***************************************************************************)
\* most peers in the buffer, most calls of kernel_get_device in a run
MaxBsdPeers == 2
MaxCalls == 2
\* sizeof(struct wg_interface_io), sizeof(struct wg_peer_io) and
\* sizeof(struct wg_aip_io) of net/if_wg.h, scaled down: the records lie end
\* to end and each is longer than one byte
SIZEOF_WG_INTERFACE_IO == 4
SIZEOF_WG_PEER_IO == 3
SIZEOF_WG_AIP_IO == 2

\* a record of the buffer: a struct wg_peer_io or a struct wg_aip_io
WgPeerIo(flags, psk, count) ==
    [kind |-> "peer", p_flags |-> flags, p_public |-> 1, p_psk |-> psk, p_pka |-> 25, p_sa |-> AF_INET,
     p_rxbytes |-> 6, p_txbytes |-> 5, p_aips_count |-> count,
     a_af |-> AF_UNSPEC, a_ip |-> 0, a_cidr |-> 0]
WgAipIo(af, ip, cidr) ==
    [kind |-> "aip", p_flags |-> {}, p_public |-> 0, p_psk |-> 0, p_pka |-> 0,
     p_sa |-> AF_UNSPEC,
     p_rxbytes |-> 0, p_txbytes |-> 0, p_aips_count |-> 0,
     a_af |-> af, a_ip |-> ip, a_cidr |-> cidr]
\* the peer headers the kernel writes: with a preshared key, with
\* WG_PEER_HAS_PSK and an all-zero key, with neither; 0 to 2 allowed-ips
PeerHeaders ==
    { WgPeerIo(f.flags, f.psk, n) :
        f \in { [flags |-> {"HAS_PUBLIC", "HAS_PSK", "HAS_PKA", "HAS_ENDPOINT"}, psk |-> 7],
                [flags |-> {"HAS_PUBLIC", "HAS_PSK"}, psk |-> 0],
                [flags |-> {"HAS_PUBLIC"}, psk |-> 0] },
        n \in 0..2 }
AipRecords == << WgAipIo(AF_INET, 1, 24), WgAipIo(AF_INET6, 2, 64) >>
\* the records the kernel lays out for a sequence of peer headers
RECURSIVE Layout(_)
Layout(hs) ==
    IF hs = <<>> THEN <<>>
    ELSE <<Head(hs)>> \o SubSeq(AipRecords, 1, Head(hs).p_aips_count) \o Layout(Tail(hs))
\* the length of the whole layout
FullSize(hs) ==
    SIZEOF_WG_INTERFACE_IO + Len(hs) * SIZEOF_WG_PEER_IO
        + (Len(Layout(hs)) - Len(hs)) * SIZEOF_WG_AIP_IO
\* the lengths reported: the whole layout, one byte less, the interface
\* header alone
ReportedSizes(hs) ==
    IF hs = <<>> THEN {FullSize(hs)}
    ELSE {FullSize(hs), FullSize(hs) - 1, SIZEOF_WG_INTERFACE_IO}
BsdBuffers(max) ==
    UNION { { [wgd_size |-> sz, i_flags |-> fl, i_peers_count |-> Len(hs),
               cells |-> Layout(hs)] :
                sz \in ReportedSizes(hs),
                fl \in { {}, {"HAS_RTABLE", "HAS_PORT", "HAS_PUBLIC", "HAS_PRIVATE"} } } :
            hs \in UNION { [1..n -> PeerHeaders] : n \in 0..max } }
\* what a read beyond wgd_size may give
Garbage == { WgAipIo(AF_UNSPEC, 0, 0), WgPeerIo({"HAS_PUBLIC"}, 0, 1) }

\* lines 1058-1079: the n allowed-ips at wg_aip (record st.k, offset st.off)
RECURSIVE DecodeAips(_, _, _, _)
DecodeAips(buf, n, st, g) ==
    IF n = 0 THEN st
    ELSE LET inb == st.off + SIZEOF_WG_AIP_IO <= buf.wgd_size
             wg_aip == IF inb THEN buf.cells[st.k] ELSE g
             aip == IF wg_aip.a_af \in {AF_INET, AF_INET6}
                    THEN [family |-> wg_aip.a_af, ip |-> wg_aip.a_ip, cidr |-> wg_aip.a_cidr]
                    ELSE [ZeroAllowedIp EXCEPT !.family = wg_aip.a_af]
         IN  DecodeAips(buf, n - 1,
                        [k |-> st.k + 1, off |-> st.off + SIZEOF_WG_AIP_IO,
                         oob |-> st.oob \/ ~inb, aips |-> Append(st.aips, aip)], g)

\* lines 1039-1042: WG_PEER_HAS_PSK
PskFlag(p_flags, psk) ==
    IF "HAS_PSK" \in p_flags THEN {"HAS_PRESHARED_KEY"} ELSE {}
\* lines 1024-1057: one struct wg_peer_io into a calloc'ed struct wgpeer
DecodePeerIo(wg_peer) ==
    [ZeroPeer EXCEPT
        !.flags = (IF "HAS_PUBLIC" \in wg_peer.p_flags THEN {"HAS_PUBLIC_KEY"} ELSE {})
                  \cup PskFlag(wg_peer.p_flags, wg_peer.p_psk)
                  \cup (IF "HAS_PKA" \in wg_peer.p_flags
                        THEN {"HAS_PERSISTENT_KEEPALIVE_INTERVAL"} ELSE {}),
        !.public_key = IF "HAS_PUBLIC" \in wg_peer.p_flags THEN wg_peer.p_public ELSE 0,
        !.preshared_key = IF "HAS_PSK" \in wg_peer.p_flags THEN wg_peer.p_psk ELSE 0,
        !.persistent_keepalive_interval =
            IF "HAS_PKA" \in wg_peer.p_flags THEN wg_peer.p_pka ELSE 0,
        !.endpoint = IF "HAS_ENDPOINT" \in wg_peer.p_flags THEN wg_peer.p_sa ELSE AF_UNSPEC,
        !.rx_bytes = wg_peer.p_rxbytes,
        !.tx_bytes = wg_peer.p_txbytes]

\* lines 1022-1081: the n peers at wg_peer (record st.k, offset st.off)
RECURSIVE DecodePeers(_, _, _, _)
DecodePeers(buf, n, st, g) ==
    IF n = 0 THEN st
    ELSE LET inb == st.off + SIZEOF_WG_PEER_IO <= buf.wgd_size
             wg_peer == IF inb THEN buf.cells[st.k] ELSE g
             Next(a) ==
                 DecodePeers(buf, n - 1,
                     [k |-> a.k, off |-> a.off, oob |-> a.oob,
                      peers |-> Append(st.peers,
                          [DecodePeerIo(wg_peer) EXCEPT
                              !.allowedips = a.aips, !.last_allowedip = Len(a.aips)])], g)
         IN  Next(DecodeAips(buf, wg_peer.p_aips_count,
                             [k |-> st.k + 1, off |-> st.off + SIZEOF_WG_PEER_IO,
                              oob |-> st.oob \/ ~inb, aips |-> <<>>], g))

\* lines 997-1020: the interface header into a calloc'ed struct wgdevice
DecodeInterfaceIo(buf) ==
    [ZeroDevice EXCEPT
        !.name = "wg0",
        !.flags = (IF "HAS_RTABLE" \in buf.i_flags THEN {"HAS_FWMARK"} ELSE {})
                  \cup (IF "HAS_PORT" \in buf.i_flags THEN {"HAS_LISTEN_PORT"} ELSE {})
                  \cup (IF "HAS_PUBLIC" \in buf.i_flags THEN {"HAS_PUBLIC_KEY"} ELSE {})
                  \cup (IF "HAS_PRIVATE" \in buf.i_flags THEN {"HAS_PRIVATE_KEY"} ELSE {}),
        !.fwmark = IF "HAS_RTABLE" \in buf.i_flags THEN 1 ELSE 0,
        !.listen_port = IF "HAS_PORT" \in buf.i_flags THEN 51820 ELSE 0,
        !.public_key = IF "HAS_PUBLIC" \in buf.i_flags THEN 3 ELSE 0,
        !.private_key = IF "HAS_PRIVATE" \in buf.i_flags THEN 4 ELSE 0]

\* lines 929-935 and 979-982: get_dgram_socket and its test
BsdGetSocket ==
    /\ bsd_pc = "start"
    /\ bsd_calls' = bsd_calls + 1
    /\ IF bsd_sock >= 0
       THEN /\ bsd_pc' = "ioctl"
            /\ UNCHANGED <<bsd_sock, bsd_open, bsd_ret>>
       ELSE \/ /\ bsd_sock' = 3
               /\ bsd_open' = bsd_open + 1
               /\ bsd_pc' = "ioctl"
               /\ UNCHANGED bsd_ret
            \/ /\ bsd_ret' = -ENOMEM
               /\ bsd_pc' = "done"
               /\ UNCHANGED <<bsd_sock, bsd_open>>
    /\ UNCHANGED <<bsd_wgdata, bsd_dev, bsd_oob, nlVars, textVars, lsVars, coVars, slVars>>

\* lines 984-996 and 1084-1087: *device = NULL, the SIOCGWG sizing loop, out
BsdGetIoctl ==
    /\ bsd_pc = "ioctl"
    /\ bsd_dev' = NULL
    /\ \/ /\ bsd_pc' = "decode"
          /\ UNCHANGED bsd_ret
       \/ \E e \in {ENODEV, ENOMEM} :
             /\ bsd_ret' = -e
             /\ bsd_pc' = "done"
    /\ UNCHANGED <<bsd_sock, bsd_open, bsd_wgdata, bsd_oob, bsd_calls,
                   nlVars, textVars, lsVars, coVars, slVars>>

\* lines 997-1087: the decoding of the buffer, out
BsdGetDecode ==
    /\ bsd_pc = "decode"
    /\ \/ \E g \in Garbage, fault \in BOOLEAN :
             LET Decoded(r) ==
                     /\ bsd_oob' = (bsd_oob \/ r.oob)
                     /\ IF fault
                        THEN /\ r.oob
                             /\ bsd_pc' = "segv"
                             /\ UNCHANGED <<bsd_dev, bsd_ret>>
                        ELSE /\ bsd_dev' = [DecodeInterfaceIo(bsd_wgdata) EXCEPT
                                               !.peers = r.peers]
                             /\ bsd_ret' = 0
                             /\ bsd_pc' = "done"
             IN  Decoded(DecodePeers(bsd_wgdata, bsd_wgdata.i_peers_count,
                                     [k |-> 1, off |-> SIZEOF_WG_INTERFACE_IO,
                                      oob |-> FALSE, peers |-> <<>>], g))
       \/ \* a calloc failed
          /\ bsd_ret' = -ENOMEM
          /\ bsd_pc' = "done"
          /\ UNCHANGED <<bsd_dev, bsd_oob>>
    /\ UNCHANGED <<bsd_sock, bsd_open, bsd_wgdata, bsd_calls,
                   nlVars, textVars, lsVars, coVars, slVars>>

\* the caller calls kernel_get_device again
BsdCall ==
    /\ bsd_pc = "done"
    /\ bsd_calls < MaxCalls
    /\ bsd_pc' = "start"
    /\ UNCHANGED <<bsd_sock, bsd_open, bsd_wgdata, bsd_dev, bsd_ret, bsd_oob, bsd_calls,
                   nlVars, textVars, lsVars, coVars, slVars>>

InitBsd ==
    /\ NlIdle
    /\ UgIdle
    /\ IpcIdle
    /\ LsIdle
    /\ CoIdle
    /\ SlIdle
    /\ bsd_pc = "start"
    /\ bsd_sock = -1
    /\ bsd_open = 0
    /\ bsd_wgdata \in BsdBuffers(MaxBsdPeers)
    /\ bsd_dev = NULL
    /\ bsd_ret = 0
    /\ bsd_oob = FALSE
    /\ bsd_calls = 0

NextBsd == BsdGetSocket \/ BsdGetIoctl \/ BsdGetDecode \/ BsdCall

SpecBsd == InitBsd /\ [][NextBsd]_vars

BsdReturned == bsd_pc = "done" /\ bsd_ret = 0

(***************************************************************************)
(* Claims about kernel_get_device of OpenBSD (SpecBsd).                    *)
(***************************************************************************)
\* C21: in every Device that get_device returns, a peer carries
\* HAS_PRESHARED_KEY only if its preshared key is not all-zero; here for the
\* Device the ioctl backend returns from a buffer read within its length.
C21_ZeroPresharedKeyUnflagged ==
    (BsdReturned /\ ~bsd_oob) =>
        \A i \in 1..Len(bsd_dev.peers) :
            "HAS_PRESHARED_KEY" \in bsd_dev.peers[i].flags
                => bsd_dev.peers[i].preshared_key # 0

\* C22: every call closes the sockets it opened before it returns, so that
\* no socket is open once a call has returned.
C22_SocketsClosedOnReturn == bsd_pc = "done" => bsd_open = 0

\* the counts of the buffer imply records beyond the reported length
Truncated(buf) ==
    buf.wgd_size < SIZEOF_WG_INTERFACE_IO
        + Len(SelectSeq(buf.cells, LAMBDA c : c.kind = "peer")) * SIZEOF_WG_PEER_IO
        + Len(SelectSeq(buf.cells, LAMBDA c : c.kind = "aip")) * SIZEOF_WG_AIP_IO
\* C23: the ioctl decoder reads no record that reaches beyond the length the
\* kernel reported, and a buffer whose counts imply records beyond that
\* length is rejected with an error.
C23_BufferBoundsChecked ==
    /\ ~bsd_oob
    /\ (bsd_pc = "done" /\ Truncated(bsd_wgdata)) => bsd_ret < 0

\* what the backend holds once it has acknowledged the messages msgs in order
RECURSIVE Applied(_, _)
Applied(st, msgs) ==
    IF msgs = <<>> THEN st ELSE Applied(StoreSetDevice(st, Head(msgs)), Tail(msgs))
\* C26: kernel_set_device sends a message only when every message before it
\* was sent and acknowledged, the backend then holding what those messages
\* set; an acknowledged message is applied; a failed send or acknowledgement
\* ends the call with that error and the socket closed, nothing more is sent,
\* and what the earlier messages set stays at the backend.
C26_ChunksAckedInOrder ==
    [][/\ sent' # sent =>
            /\ ks_pc = "again" /\ ks_pc' = "recv" /\ ks_ret = 0
            /\ sent' = Append(sent, sent'[Len(sent')])
            /\ store = Applied(EmptyStore, sent)
       /\ (ks_pc = "recv" /\ ks_pc' = "again") =>
            store' = StoreSetDevice(store, sent[Len(sent)])
       /\ (ks_pc \in {"again", "recv"} /\ ks_ret' < 0) =>
            /\ ks_pc' = "out" /\ nl_sockets' = 0
            /\ sent' = sent /\ store' = store
       /\ ks_pc = "out" =>
            /\ ks_pc' = "out" /\ ks_ret' = ks_ret
            /\ sent' = sent /\ store' = store]_vars
\* a set in three messages failed at the acknowledgement of the third: the
\* backend holds what the first two set
C26_Witness ==
    /\ ks_pc = "out"
    /\ ks_ret < 0
    /\ nl_sockets = 0
    /\ Len(sent) = 3
    /\ store = Applied(EmptyStore, SubSeq(sent, 1, 2))
    /\ store.peers # <<>>

(***************************************************************************)
(* SpecCap: kernel_set_device under two values of SOCKET_BUFFER_SIZE, the  *)
(* capacity of SpecSet and half of it, which still holds the header, the   *)
(* interface name and the device attributes (written without a check at    *)
(* lines 563-578) but not every peer with one allowed-ip.                  *)
(***************************************************************************)
SmallCap == SOCKET_BUFFER_SIZE \div 2

InitCap ==
    /\ dev \in Devices(MaxPeers)
    /\ ks_pc = "open"
    /\ peer = NULL
    /\ allowedip = NULL
    /\ sent = <<>>
    /\ ks_ret = 0
    /\ ks_cap \in {SOCKET_BUFFER_SIZE, SmallCap}
    /\ store = EmptyStore
    /\ nl_sockets = 0
    /\ kg_pc = "out"
    /\ device = NULL
    /\ kg_ret = 0
    /\ kg_tries = 0
    /\ kg_reply = <<>>
    /\ kg_freed = 0
    /\ UgIdle
    /\ IpcIdle
    /\ FarIdle

NextCap == KernelSetOpen \/ KernelSetSend \/ KernelSetRecv

SpecCap == InitCap /\ [][NextCap]_vars

\* the length of a message holding the header, the interface name, the peers
\* nest, the own attributes of p and, if p has any, one allowed-ip
NeededFor(p) ==
    NLMSG_HDRLEN + AttrLen(IFNAME_LEN + 1) + MNL_ATTR_HDRLEN
    + SumAttrLen(PeerHeadSizes(p, NULL))
    + (IF p.allowedips = <<>> THEN 0
       ELSE MNL_ATTR_HDRLEN + SumAttrLen(AllowedIpSizes(p.allowedips[1])))
CapacityHolds(cap, d) == \A i \in 1..Len(d.peers) : NeededFor(d.peers[i]) <= cap
\* the peers and the <<peer, allowed-ip>> pairs the messages msgs transmit
Transmitted(msgs) ==
    LET Of(es) ==
            { <<es[k].idx, 0>> : k \in 1..Len(es) }
            \cup UNION { { <<es[k].idx, es[k].allowedips[j].ip>> :
                             j \in 1..Len(es[k].allowedips) } : k \in 1..Len(es) }
    IN  Of(AllEntries(msgs))
\* C25: where the capacity holds the message header, the interface name, one
\* peer's own attributes and one allowed-ip, every message after the first
\* transmits a peer or an allowed-ip that no earlier message transmitted, the
\* number of messages is at most the number of peers plus allowed-ips plus
\* one, and the call is never cut short by the bound on messages; where the
\* smaller capacity does not hold them, the call never succeeds and goes on
\* sending the same message.
C25_SendLoopProgress ==
    /\ CapacityHolds(ks_cap, dev) =>
          /\ \A k \in 2..Len(sent) :
                ~(Transmitted(<<sent[k]>>) \subseteq Transmitted(SubSeq(sent, 1, k - 1)))
          /\ Len(sent) <= Len(dev.peers) + Len(KeyedAllowedIps(dev.peers)) + 1
          /\ ks_pc = "again" => Len(sent) < MaxMsgs
    /\ (ks_cap = SmallCap /\ ~CapacityHolds(ks_cap, dev)) =>
          /\ ks_pc = "out" => ks_ret < 0
          /\ Len(sent) = MaxMsgs =>
                (peer # NULL /\ sent[MaxMsgs] = sent[MaxMsgs - 1])
\* a request was sent in three or more messages under a capacity that holds
\* every peer with one allowed-ip
C25_Witness ==
    /\ SetSucceeded
    /\ CapacityHolds(ks_cap, dev)
    /\ Len(sent) >= 3
    /\ Len(KeyedAllowedIps(dev.peers)) > MaxAllowedIps

(***************************************************************************)
(* SpecStr: string_list_add called again and again on one list, which      *)
(* starts as struct string_list list = { 0 }.                              *)
(***************************************************************************)
\* most calls of string_list_add
MaxAdds == 4
AddedStrings == {"", "wg0", "wg1", "stale"}

\* lines 57-80: one call; sl_calls keeps its argument, the list it was given
\* and what it returned
StringListAdd(str, realloc_ok) ==
    /\ Len(sl_calls) < MaxAdds
    /\ LET Added(r) ==
               /\ sl_list' = r.list
               /\ sl_oob' = (sl_oob \/ r.oob)
               /\ sl_calls' = Append(sl_calls, [str |-> str, before |-> sl_list,
                                                ret |-> r.ret])
       IN  Added(string_list_add(sl_list, str, realloc_ok))
    /\ UNCHANGED <<nlVars, textVars, lsVars, coVars, bsdVars>>

InitStr ==
    /\ NlIdle
    /\ UgIdle
    /\ IpcIdle
    /\ LsIdle
    /\ CoIdle
    /\ BsdIdle
    /\ sl_list = EmptyList
    /\ sl_calls = <<>>
    /\ sl_oob = FALSE

NextStr == \E str \in AddedStrings, realloc_ok \in BOOLEAN : StringListAdd(str, realloc_ok)

SpecStr == InitStr /\ [][NextStr]_vars

\* the non-empty strings of the calls that returned 0, in call order
Stored(calls) == SelectSeq(calls, LAMBDA c : c.ret = 0 /\ c.str # "")
\* the strings, each followed by its NUL
RECURSIVE Terminated(_)
Terminated(calls) ==
    IF calls = <<>> THEN <<>>
    ELSE Bytes(Head(calls).str) \o <<NUL>> \o Terminated(Tail(calls))
\* the list the k-th call left
ListAfter(k) == IF k = Len(sl_calls) THEN sl_list ELSE sl_calls[k + 1].before
\* C28: after any calls of string_list_add on a list that started empty, no
\* byte was written at or beyond index cap; the buffer has cap bytes and,
\* once allocated, len < cap; its first len bytes are the non-empty strings
\* added, in call order (one added twice is there twice), each followed by
\* its NUL, and the byte at index len is a NUL; a call with the empty string
\* and a call whose realloc failed leave buffer, len and cap as they were.
C28_StringListInvariant ==
    /\ ~sl_oob
    /\ Len(sl_list.buffer) = sl_list.cap
    /\ sl_list.cap > 0 => sl_list.len < sl_list.cap
    /\ sl_list.len = Len(Terminated(Stored(sl_calls)))
    /\ sl_list.cap > 0 =>
          SubSeq(sl_list.buffer, 1, sl_list.len + 1)
              = Terminated(Stored(sl_calls)) \o <<NUL>>
    /\ sl_list.cap = 0 => Stored(sl_calls) = <<>>
    /\ \A k \in 1..Len(sl_calls) :
          /\ sl_calls[k].str = "" => (sl_calls[k].ret = 0 /\ ListAfter(k) = sl_calls[k].before)
          /\ sl_calls[k].ret < 0 => ListAfter(k) = sl_calls[k].before
\* a string was added twice and is stored twice, a call with the empty
\* string and a call whose realloc failed were made
C28_Witness ==
    /\ Len(sl_calls) = MaxAdds
    /\ \E i, j \in 1..Len(Stored(sl_calls)) :
          i < j /\ Stored(sl_calls)[i].str = Stored(sl_calls)[j].str
    /\ \E k \in 1..Len(sl_calls) : sl_calls[k].str = ""
    /\ \E k \in 1..Len(sl_calls) : sl_calls[k].ret < 0
====
